---------------------------- MODULE Spec2Model ----------------------------
(***************************************************************************)
(* A model of dataset/pipeline.py and dataset/decorators.py:               *)
(*   - the prefetch scheduler of Pipeline.gen_batch (producer stage,       *)
(*     consumer stage, caller loop, execution pool) and Pipeline.reset_iter*)
(*   - the action chain (Pipeline.__getattr__/append_action, __matmul__,   *)
(*     __mul__, from_pipeline, __init__)                                   *)
(*   - the model directory (ModelDirectory and the @model decorator)       *)
(*   - the execution of a chain on one unit (Pipeline._exec)               *)
(*   - the in-batch dispatch of @inbatch_parallel                          *)
(* Each part has its own specification; the variables of the other parts   *)
(* keep their initial values.                                              *)
(***************************************************************************)
EXTENDS Integers, Sequences, FiniteSets, TLC

\* ------------------------------------------------------------------ bounds
MaxPrefetch == 2
MaxUnits == 3
MaxResets == 2
MaxChains == 5
MaxRepeat == 2
NumWorkers == 3
NumPipelines == 2
NumDatasets == 2
MaxDraws == 5
RecursionLimit == 3
MaxBundles == 3
NWorkers == 2
MaxBuilds == 2
MaxSources == 3
MaxBatchLen == 5
MaxBatchSize == 4
MaxRecords == 3
NumCallers == 3
NumInvocations == 3

\* ----------------------------------------------------- program constants
\* gen_batch: "pool cannot have more than 63 workers"
MaxPoolPrefetch == 62

VARIABLES
    \* inputs of one iteration
    prefetch,           \* gen_batch's prefetch argument (look-ahead depth P)
    n_units,            \* number of units the upstream generator produces
    outcome,            \* outcome[u]: what self._exec(unit u) does: "ok", "skip", "err"
    rebatch,            \* whether the upstream generator is gen_rebatch
    \* Pipeline fields (pipeline.py 65-72)
    stop_flag, executor, service_executor, prefetch_count, prefetch_queue,
    batch_queue, batch_generator, rest_batch,
    \* upstream generator and execution pool
    gen_pos,            \* units pulled from the upstream generator so far
    future,             \* future[u]: "none", "pending" or "done"
    \* _put_batches_into_queue (producer stage)
    producer_pc, producer_batch,
    \* _run_batches_from_queue (consumer stage)
    consumer_pc, consumer_future, batch, skip_batch,
    \* gen_batch's own loop (runs on the user's thread)
    caller_pc,
    \* reset_iter (called on the user's thread)
    reset_pc,
    \* observation
    output,             \* units yielded to the caller, in order
    released,           \* units released by the caller loop
    out_of_order,       \* some unit finished executing before an earlier one
    after_reset,        \* the Pipeline fields as each reset_iter call left them
    \* the action chains
    records,            \* the record dicts, by identity
    action_list,        \* action_list[c]: chain c's _action_list, a list of record identities
    dataset,            \* dataset[c]: chain c's dataset, None or <<dataset>>
    last_op,            \* the chain operation that was applied last
    \* the model directory
    config,             \* the owner pipelines' config: None or the set of its keys
    models,             \* ModelDirectory.models: mode -> pipeline -> method -> model_spec
    model_lock,         \* model_lock[b]: the worker holding b's _pipeline_model_lock, or 0
    worker_task,        \* worker_task[w]: the method and self.pipeline of w's call
    worker_pc,
    worker_spec,        \* w's local model_spec
    returned,           \* what w's call returned: None or <<model_spec>>
    build_count,        \* how often each method was invoked for each pipeline
    declared,           \* the methods the @model decorator has been applied to
    reg_op,             \* the last operation on the directory made as one step
    \* the execution of a chain on one unit
    exec_pipeline,      \* the chain whose _exec ran last, or 0
    exec_batch,         \* the unit it returned: the records whose methods ran, in order
    exec_drawn,         \* the gate decisions drawn: <<record, outcome>>, in order
    exec_visited,       \* the records the outermost loop came to, in order
    exec_raised,        \* it raised RecursionError
    \* one dispatch of a method wrapped by @inbatch_parallel
    target,             \* the decorator's target, "none" before the call
    has_post,           \* the decorator names a post method
    op_factory,         \* the wrapped method returns a function
    has_timeout,        \* the call passes timeout=...
    bundles,            \* what init yields; bundles[i]: the work on the i-th raises
    futures,            \* the local list `futures`
    done_order,         \* the bundles in the order their work ended
    all_results,        \* the list handed to post or to the default aggregation
    calls,              \* calls made so far: of the method, of the function it
                        \* returned, of post, of the aggregation as a whole
    printed,            \* the errors were printed
    wrap_pc,
    dispatch_return,    \* what the call returned: "self", "post_result", or "raise"
    \* one run of gen_rebatch
    rb_source,          \* the batches of the upstream pipeline, as item lists
    rb_batch_size,      \* the record's batch_size
    rb_none_rest,       \* the merge gives None, not an empty batch, when nothing is left
    rb_next,            \* the upstream batch the next next_batch() returns
    rb_rest,            \* self._rest_batch inside gen_rebatch
    rb_yielded,         \* the batches gen_rebatch has yielded
    rb_pc,              \* the generator: "start", "yielded" or "done"
    \* the names a chain accepts and the batch class it runs on
    cap_class,          \* the class of the batches the chain's dataset makes
    cap_list,           \* the names of the chain's records
    cap_pc,             \* "build", then "exec", then "done" or "raised"
    cap_cursor,         \* the record _exec_all_actions is at
    cap_error,          \* the last exception: "none", or its type and where
    \* one variable of a pipeline, used by several batches at a time
    variables,          \* self._variables[name]: None while the name is not in the dict
    variables_lock,     \* self._variables_lock: 0, or the caller that holds it
    caller_call,        \* per caller: the method called and its arguments
    caller_at,          \* per caller: where it is in the call
    caller_value,       \* per caller: the value it is about to set
    caller_got,         \* per caller: what get_variable returned
    created,            \* how many times the dict entry was made
    init_calls,         \* how many times an init function was called
    warned,             \* the "was not initialized" warning was logged
    \* an action declared with use_lock, invoked by several units of a chain
    use_lock,           \* _use_lock: None, or the name of the lock variable
    batch_pipeline,     \* action_self.pipeline: None, or the chain
    lock_variable,      \* pipeline._variables[_use_lock]: None while the name is not in the dict
    lock_variables_lock, \* pipeline._variables_lock: 0, or the invocation that holds it
    lock_owner,         \* lock_owner[k]: who holds the Lock() invocation k made, or 0
    act_does,           \* per invocation: what model lookup and body do
    act_pc,             \* per invocation: where it is in _action_wrapper
    act_phase,          \* per invocation: before the body ("acquire") or after it ("release")
    act_nested,         \* per invocation: init_variable was called by get_variable
    act_default,        \* per invocation: the default passed to init_variable (0 is None)
    act_got             \* per invocation: what get_variable returned (0 is None)

sched_vars == <<prefetch, n_units, outcome, rebatch, stop_flag, executor,
                service_executor, prefetch_count, prefetch_queue, batch_queue,
                batch_generator, rest_batch, gen_pos, future, producer_pc,
                producer_batch, consumer_pc, consumer_future, batch, skip_batch,
                caller_pc, reset_pc, output, released, out_of_order,
                after_reset>>

\* the variables of the other parts
chain_vars == <<records, action_list, dataset, last_op>>
model_vars == <<config, models, model_lock, worker_task, worker_pc, worker_spec,
                returned, build_count, declared, reg_op>>
exec_vars == <<exec_pipeline, exec_batch, exec_drawn, exec_visited, exec_raised>>
dispatch_vars == <<target, has_post, op_factory, has_timeout, bundles, futures,
                   done_order, all_results, calls, printed, wrap_pc, dispatch_return>>
rebatch_vars == <<rb_source, rb_batch_size, rb_none_rest, rb_next, rb_rest, rb_yielded, rb_pc>>
cap_vars == <<cap_class, cap_list, cap_pc, cap_cursor, cap_error>>
variables_vars == <<variables, variables_lock, caller_call, caller_at, caller_value, caller_got, created, init_calls, warned>>
lock_vars == <<use_lock, batch_pipeline, lock_variable, lock_variables_lock, lock_owner, act_does, act_pc, act_phase, act_nested, act_default, act_got>>
not_sched == <<chain_vars, model_vars, exec_vars, dispatch_vars, rebatch_vars, cap_vars, variables_vars, lock_vars>>
not_chain == <<sched_vars, model_vars, exec_vars, dispatch_vars, rebatch_vars, cap_vars, variables_vars, lock_vars>>
not_model == <<sched_vars, chain_vars, exec_vars, dispatch_vars, rebatch_vars, cap_vars, variables_vars, lock_vars>>
not_exec == <<sched_vars, chain_vars, model_vars, dispatch_vars, rebatch_vars, cap_vars, variables_vars, lock_vars>>
not_dispatch == <<sched_vars, chain_vars, model_vars, exec_vars, rebatch_vars, cap_vars, variables_vars, lock_vars>>
not_rebatch == <<sched_vars, chain_vars, model_vars, exec_vars, dispatch_vars, cap_vars, variables_vars, lock_vars>>
not_cap == <<sched_vars, chain_vars, model_vars, exec_vars, dispatch_vars, rebatch_vars, variables_vars, lock_vars>>
not_variables == <<sched_vars, chain_vars, model_vars, exec_vars, dispatch_vars, rebatch_vars, cap_vars, lock_vars>>
not_lock == <<sched_vars, chain_vars, model_vars, exec_vars, dispatch_vars, rebatch_vars, cap_vars, variables_vars>>

vars == <<sched_vars, chain_vars, model_vars, exec_vars, dispatch_vars, rebatch_vars, cap_vars, variables_vars, lock_vars>>

\* ----------------------------------------------------------------- values
\* Python's None for an optional object; an object that is there is <<object>>.
None == <<>>
Some(x) == <<x>>

\* The None that ends the stream in the queues (pipeline.py 552, 560).
EndOfStream == 0
\* The consumer stage's local `batch` before any assignment.
Unbound == -1

Units == 1..MaxUnits
Outcomes == {"ok", "skip", "err"}

Min(a, b) == IF a < b THEN a ELSE b

\* queue.Queue(maxsize): put blocks while full, get blocks while empty.
QueueFull(queue, maxsize) == Len(queue[1]) >= maxsize
QueueEmpty(queue) == queue[1] = <<>>
QueuePut(queue, item) == Some(Append(queue[1], item))
QueueGetLifo(queue) ==
    [item |-> queue[1][Len(queue[1])],
     rest |-> Some(SubSeq(queue[1], 1, Len(queue[1]) - 1))]
QueueGet(queue) == [item |-> Head(queue[1]), rest |-> Some(Tail(queue[1]))]

\* Queue sizes of gen_batch (pipeline.py 655, 665-667).
PoolPrefetch(p) == Min(p, MaxPoolPrefetch)
PrefetchCountSizeWide(p) == PoolPrefetch(p) + 2
PrefetchCountSize(p) == PoolPrefetch(p) + 1
PrefetchQueueSize(p) == PoolPrefetch(p)
BatchQueueSize == 1

\* ------------------------------------------------------------------- init
\* Pipeline.__init__ (pipeline.py 62-74): the fields, then reset_iter, which
\* finds nothing to clear and leaves the stop flag set.
InitFields ==
    /\ stop_flag = TRUE
    /\ executor = "None"
    /\ service_executor = "None"
    /\ prefetch_count = None
    /\ prefetch_queue = None
    /\ batch_queue = None
    /\ batch_generator = "None"
    /\ rest_batch = "None"

\* Nothing has run yet.
InitIter ==
    /\ InitFields
    /\ gen_pos = 0
    /\ future = [u \in Units |-> "none"]
    /\ producer_pc = "idle"
    /\ producer_batch = 0
    /\ consumer_pc = "idle"
    /\ consumer_future = 0
    /\ batch = Unbound
    /\ skip_batch = FALSE
    /\ caller_pc = "start"
    /\ reset_pc = "idle"
    /\ output = <<>>
    /\ released = 0
    /\ out_of_order = FALSE
    /\ after_reset = <<>>

\* The inputs of an iteration: any depth, any upstream, any outcomes.
InitSched ==
    /\ prefetch \in 0..MaxPrefetch
    /\ n_units \in 0..MaxUnits
    /\ outcome \in [Units -> Outcomes]
    /\ \A u \in Units : u > n_units => outcome[u] = "ok"
    /\ rebatch \in BOOLEAN
    /\ InitIter

\* No iteration is modelled.
IdleSched ==
    /\ prefetch = 0
    /\ n_units = 0
    /\ outcome = [u \in Units |-> "ok"]
    /\ rebatch = FALSE
    /\ InitIter

inputs == <<prefetch, n_units, outcome, rebatch>>
queues == <<prefetch_count, prefetch_queue, batch_queue>>
producer_vars == <<producer_pc, producer_batch>>
consumer_vars == <<consumer_pc, consumer_future, batch, skip_batch>>
observed == <<output, released, after_reset>>
history == <<not_sched, out_of_order>>

\* ------------------------------------------------------ upstream generator
\* next(gen_batch) on dataset.gen_batch or gen_rebatch (pipeline.py 613-640):
\* gen_rebatch keeps the remainder of the merge in self._rest_batch, and ends
\* only with no remainder left.
GenHasNext == gen_pos < n_units
GenRestBatch(u) ==
    IF ~rebatch THEN {rest_batch}
    ELSE IF u < n_units THEN {"None", "batch"} ELSE {"None"}

\* ------------------------------------------------- gen_batch (caller loop)
\* pipeline.py 652: if prefetch > 0
PrefetchingAlways(p) == TRUE
Prefetching(p) == p > 0

\* pipeline.py 643-670: the first next() on the generator. With prefetch > 0
\* it creates the pools and queues and starts the two stages.
gen_batch_start ==
    /\ caller_pc = "start"
    /\ reset_pc = "idle"
    /\ \E via_next_batch \in BOOLEAN :
          batch_generator' = IF via_next_batch THEN "gen" ELSE batch_generator
    /\ IF Prefetching(prefetch)
       THEN /\ executor' = "running"
            /\ stop_flag' = FALSE
            /\ prefetch_count' = Some(<<>>)
            /\ prefetch_queue' = Some(<<>>)
            /\ batch_queue' = Some(<<>>)
            /\ service_executor' = "running"
            /\ producer_pc' = "while"
            /\ consumer_pc' = "while"
            /\ skip_batch' = FALSE
            /\ caller_pc' = "while"
       ELSE /\ caller_pc' = "for"
            /\ UNCHANGED <<executor, stop_flag, queues, service_executor,
                           producer_pc, consumer_pc, skip_batch>>
    /\ UNCHANGED <<history, inputs, rest_batch, gen_pos, future, producer_batch,
                   consumer_future, batch, reset_pc, observed>>

\* pipeline.py 672: while not self._stop_flag
gen_batch_while ==
    /\ caller_pc = "while"
    /\ reset_pc = "idle"
    /\ caller_pc' = IF stop_flag THEN "done" ELSE "get"
    /\ UNCHANGED <<history, inputs, stop_flag, executor, service_executor, queues,
                   batch_generator, rest_batch, gen_pos, future, producer_vars,
                   consumer_vars, reset_pc, observed>>

\* pipeline.py 673-676, 679-680: pop the delivery queue; yield a unit, or set
\* the stop flag on the end of the stream.
gen_batch_get ==
    /\ caller_pc = "get"
    /\ reset_pc = "idle"
    /\ batch_queue # None
    /\ ~QueueEmpty(batch_queue)
    /\ LET got == QueueGet(batch_queue) IN
          /\ batch_queue' = got.rest
          /\ IF got.item # EndOfStream
             THEN /\ output' = Append(output, got.item)
                  /\ caller_pc' = "yielded"
                  /\ UNCHANGED stop_flag
             ELSE /\ stop_flag' = TRUE
                  /\ caller_pc' = "while"
                  /\ UNCHANGED output
    /\ UNCHANGED <<history, inputs, executor, service_executor, prefetch_count,
                   prefetch_queue, batch_generator, rest_batch, gen_pos, future,
                   producer_vars, consumer_vars, reset_pc, released, after_reset>>

\* pipeline.py 677-678: the caller asks for the next unit; the generator
\* resumes after the yield and takes one token back. After reset_iter the
\* queue attribute is None and the lookup raises.
gen_batch_resume ==
    /\ caller_pc = "yielded"
    /\ reset_pc = "idle"
    /\ IF prefetch_count = None
       THEN /\ caller_pc' = "raised"
            /\ UNCHANGED <<prefetch_count, released>>
       ELSE /\ ~QueueEmpty(prefetch_count)
            /\ prefetch_count' = QueueGet(prefetch_count).rest
            /\ released' = released + 1
            /\ caller_pc' = "while"
    /\ UNCHANGED <<history, inputs, stop_flag, executor, service_executor, prefetch_queue,
                   batch_queue, batch_generator, rest_batch, gen_pos, future,
                   producer_vars, consumer_vars, reset_pc, output, after_reset>>

\* pipeline.py 682: for batch in batch_generator (prefetch = 0)
gen_batch_for ==
    /\ caller_pc = "for"
    /\ reset_pc = "idle"
    /\ IF GenHasNext
       THEN /\ gen_pos' = gen_pos + 1
            /\ rest_batch' \in GenRestBatch(gen_pos + 1)
            /\ caller_pc' = "exec"
       ELSE /\ caller_pc' = "done"
            /\ UNCHANGED <<gen_pos, rest_batch>>
    /\ UNCHANGED <<history, inputs, stop_flag, executor, service_executor, queues,
                   batch_generator, future, producer_vars, consumer_vars,
                   reset_pc, observed>>

\* pipeline.py 683-688: self._exec(batch) on the caller's thread; a skipped
\* unit is passed over, any other exception leaves the generator.
gen_batch_exec ==
    /\ caller_pc = "exec"
    /\ reset_pc = "idle"
    /\ IF outcome[gen_pos] = "ok"
       THEN /\ output' = Append(output, gen_pos)
            /\ caller_pc' = "yielded_seq"
            /\ UNCHANGED released
       ELSE IF outcome[gen_pos] = "skip"
       THEN /\ released' = released + 1
            /\ caller_pc' = "for"
            /\ UNCHANGED output
       ELSE /\ caller_pc' = "raised"
            /\ UNCHANGED <<output, released>>
    /\ UNCHANGED <<history, inputs, stop_flag, executor, service_executor, queues,
                   batch_generator, rest_batch, gen_pos, future, producer_vars,
                   consumer_vars, reset_pc, after_reset>>

\* pipeline.py 688, 682: the caller asks for the next unit (prefetch = 0)
gen_batch_resume_seq ==
    /\ caller_pc = "yielded_seq"
    /\ reset_pc = "idle"
    /\ released' = released + 1
    /\ caller_pc' = "for"
    /\ UNCHANGED <<history, inputs, stop_flag, executor, service_executor, queues,
                   batch_generator, rest_batch, gen_pos, future, producer_vars,
                   consumer_vars, reset_pc, output, after_reset>>

\* ------------------------------------- _put_batches_into_queue (producer)
\* pipeline.py 543: while not self._stop_flag
put_batches_while ==
    /\ producer_pc = "while"
    /\ producer_pc' = IF stop_flag THEN "put_none" ELSE "put_count"
    /\ UNCHANGED <<history, inputs, stop_flag, executor, service_executor, queues,
                   batch_generator, rest_batch, gen_pos, future, producer_batch,
                   consumer_vars, caller_pc, reset_pc, observed>>

\* pipeline.py 544: self._prefetch_count.put(1, block=True)
put_batches_put_count ==
    /\ producer_pc = "put_count"
    /\ prefetch_count # None
    /\ ~QueueFull(prefetch_count, PrefetchCountSize(prefetch))
    /\ prefetch_count' = QueuePut(prefetch_count, 1)
    /\ producer_pc' = "next"
    /\ UNCHANGED <<history, inputs, stop_flag, executor, service_executor, prefetch_queue,
                   batch_queue, batch_generator, rest_batch, gen_pos, future,
                   producer_batch, consumer_vars, caller_pc, reset_pc, observed>>

\* pipeline.py 545-548: batch = next(gen_batch), StopIteration leaves the loop
put_batches_next ==
    /\ producer_pc = "next"
    /\ IF GenHasNext
       THEN /\ gen_pos' = gen_pos + 1
            /\ rest_batch' \in GenRestBatch(gen_pos + 1)
            /\ producer_batch' = gen_pos + 1
            /\ producer_pc' = "submit"
       ELSE /\ producer_pc' = "put_none"
            /\ UNCHANGED <<gen_pos, rest_batch, producer_batch>>
    /\ UNCHANGED <<history, inputs, stop_flag, executor, service_executor, queues,
                   batch_generator, future, consumer_vars, caller_pc, reset_pc,
                   observed>>

\* pipeline.py 550: future = self._executor.submit(self._exec, batch); a pool
\* that was shut down refuses the task (RuntimeError) and the stage dies.
put_batches_submit ==
    /\ producer_pc = "submit"
    /\ IF executor = "running"
       THEN /\ future' = [future EXCEPT ![producer_batch] = "pending"]
            /\ producer_pc' = "put_future"
       ELSE /\ producer_pc' = "dead"
            /\ UNCHANGED future
    /\ UNCHANGED <<history, inputs, stop_flag, executor, service_executor, queues,
                   batch_generator, rest_batch, gen_pos, producer_batch,
                   consumer_vars, caller_pc, reset_pc, observed>>

\* pipeline.py 551: self._prefetch_queue.put(future, block=True)
put_batches_put_future ==
    /\ producer_pc = "put_future"
    /\ prefetch_queue # None
    /\ ~QueueFull(prefetch_queue, PrefetchQueueSize(prefetch))
    /\ prefetch_queue' = QueuePut(prefetch_queue, producer_batch)
    /\ producer_pc' = "while"
    /\ UNCHANGED <<history, inputs, stop_flag, executor, service_executor, prefetch_count,
                   batch_queue, batch_generator, rest_batch, gen_pos, future,
                   producer_batch, consumer_vars, caller_pc, reset_pc, observed>>

\* pipeline.py 552: self._prefetch_queue.put(None, block=True)
put_batches_put_none ==
    /\ producer_pc = "put_none"
    /\ prefetch_queue # None
    /\ ~QueueFull(prefetch_queue, PrefetchQueueSize(prefetch))
    /\ prefetch_queue' = QueuePut(prefetch_queue, EndOfStream)
    /\ producer_pc' = "done"
    /\ UNCHANGED <<history, inputs, stop_flag, executor, service_executor, prefetch_count,
                   batch_queue, batch_generator, rest_batch, gen_pos, future,
                   producer_batch, consumer_vars, caller_pc, reset_pc, observed>>

\* ------------------------------------------------------- execution pool
\* A pool worker finishes self._exec(unit u); pending tasks finish in any order,
\* also after shutdown() was called.
exec_finish(u) ==
    /\ future[u] = "pending"
    /\ future' = [future EXCEPT ![u] = "done"]
    /\ out_of_order' = (out_of_order \/ \E v \in 1..(u - 1) : future[v] = "pending")
    /\ UNCHANGED <<not_sched, inputs, stop_flag, executor, service_executor, queues,
                   batch_generator, rest_batch, gen_pos, producer_vars,
                   consumer_vars, caller_pc, reset_pc, observed>>

\* -------------------------------------- _run_batches_from_queue (consumer)
\* pipeline.py 556: while not self._stop_flag
run_batches_while ==
    /\ consumer_pc = "while"
    /\ consumer_pc' = IF stop_flag THEN "done" ELSE "get"
    /\ UNCHANGED <<history, inputs, stop_flag, executor, service_executor, queues,
                   batch_generator, rest_batch, gen_pos, future, producer_vars,
                   consumer_future, batch, skip_batch, caller_pc, reset_pc,
                   observed>>

\* pipeline.py 557-558: future = self._prefetch_queue.get(block=True)
run_batches_get ==
    /\ consumer_pc = "get"
    /\ prefetch_queue # None
    /\ ~QueueEmpty(prefetch_queue)
    /\ LET got == QueueGet(prefetch_queue) IN
          /\ prefetch_queue' = got.rest
          /\ consumer_future' = got.item
          /\ consumer_pc' = IF got.item = EndOfStream THEN "put_none" ELSE "result"
    /\ UNCHANGED <<history, inputs, stop_flag, executor, service_executor, prefetch_count,
                   batch_queue, batch_generator, rest_batch, gen_pos, future,
                   producer_vars, batch, skip_batch, caller_pc, reset_pc, observed>>

\* pipeline.py 559-561: the end of the stream is passed on and the stage ends
run_batches_put_none ==
    /\ consumer_pc = "put_none"
    /\ batch_queue # None
    /\ ~QueueFull(batch_queue, BatchQueueSize)
    /\ batch_queue' = QueuePut(batch_queue, EndOfStream)
    /\ consumer_pc' = "done"
    /\ UNCHANGED <<history, inputs, stop_flag, executor, service_executor, prefetch_count,
                   prefetch_queue, batch_generator, rest_batch, gen_pos, future,
                   producer_vars, consumer_future, batch, skip_batch, caller_pc,
                   reset_pc, observed>>

\* pipeline.py 563-570: batch = future.result(); SkipBatchException sets
\* skip_batch, any other exception is printed; `batch` is assigned only when
\* result() returns.
run_batches_result ==
    /\ consumer_pc = "result"
    /\ future[consumer_future] = "done"
    /\ batch' = IF outcome[consumer_future] = "ok" THEN consumer_future ELSE batch
    /\ skip_batch' = IF outcome[consumer_future] = "skip" THEN TRUE ELSE skip_batch
    /\ consumer_pc' = "finally"
    /\ UNCHANGED <<history, inputs, stop_flag, executor, service_executor, queues,
                   batch_generator, rest_batch, gen_pos, future, producer_vars,
                   consumer_future, caller_pc, reset_pc, observed>>

\* pipeline.py 571-575: finally: if not skip_batch: put(batch); skip_batch =
\* False. Reading `batch` before its first assignment raises
\* UnboundLocalError, which ends the stage.
run_batches_finally ==
    /\ consumer_pc = "finally"
    /\ IF skip_batch
       THEN /\ consumer_pc' = "while"
            /\ UNCHANGED <<batch_queue, skip_batch>>
       ELSE IF batch = Unbound
       THEN /\ consumer_pc' = "dead"
            /\ UNCHANGED <<batch_queue, skip_batch>>
       ELSE /\ batch_queue # None
            /\ ~QueueFull(batch_queue, BatchQueueSize)
            /\ batch_queue' = QueuePut(batch_queue, batch)
            /\ skip_batch' = FALSE
            /\ consumer_pc' = "while"
    /\ UNCHANGED <<history, inputs, stop_flag, executor, service_executor, prefetch_count,
                   prefetch_queue, batch_generator, rest_batch, gen_pos, future,
                   producer_vars, consumer_future, batch, caller_pc, reset_pc,
                   observed>>

\* ------------------------------------------------------------- reset_iter
\* The fields reset_iter leaves behind (pipeline.py 590, 599-605).
IterFields == [stop_flag |-> stop_flag, executor |-> executor,
               service_executor |-> service_executor,
               prefetch_count |-> prefetch_count, prefetch_queue |-> prefetch_queue,
               batch_queue |-> batch_queue, batch_generator |-> batch_generator,
               rest_batch |-> rest_batch]
ResetFieldsNoRest ==
    [executor |-> "None", service_executor |-> "None", prefetch_count |-> None,
     prefetch_queue |-> None, batch_queue |-> None, batch_generator |-> "None",
     rest_batch |-> rest_batch]
ResetFields ==
    [executor |-> "None", service_executor |-> "None", prefetch_count |-> None,
     prefetch_queue |-> None, batch_queue |-> None, batch_generator |-> "None",
     rest_batch |-> "None"]

\* The generator is suspended (or not started, or over): the user's thread is
\* free to call reset_iter.
CallerSuspended == caller_pc \in {"start", "yielded", "yielded_seq", "done", "raised"}

\* _clear_queue (pipeline.py 580-584): queue.empty() is tested, then
\* queue.get(block=True) is called; the two are separate steps.
ClearQueueTest(queue, get_pc, next_pc) ==
    reset_pc' = IF queue = None \/ QueueEmpty(queue) THEN next_pc ELSE get_pc
ClearQueueGet(queue) == queue # None /\ ~QueueEmpty(queue)

\* _stop_executor (pipeline.py 586-588)
StopExecutor(pool) == IF pool = "None" THEN "None" ELSE "shutdown"

StageOver(pc) == pc \in {"idle", "done", "dead"}

\* pipeline.py 590
reset_iter_begin ==
    /\ reset_pc = "idle"
    /\ CallerSuspended
    /\ Len(after_reset) < MaxResets
    /\ stop_flag' = TRUE
    /\ reset_pc' = "clear_prefetch_queue"
    /\ UNCHANGED <<history, inputs, executor, service_executor, queues, batch_generator,
                   rest_batch, gen_pos, future, producer_vars, consumer_vars,
                   caller_pc, observed>>

\* pipeline.py 592
reset_iter_test_prefetch_queue ==
    /\ reset_pc = "clear_prefetch_queue"
    /\ ClearQueueTest(prefetch_queue, "get_prefetch_queue", "clear_batch_queue")
    /\ UNCHANGED <<history, inputs, stop_flag, executor, service_executor, queues,
                   batch_generator, rest_batch, gen_pos, future, producer_vars,
                   consumer_vars, caller_pc, observed>>

reset_iter_get_prefetch_queue ==
    /\ reset_pc = "get_prefetch_queue"
    /\ ClearQueueGet(prefetch_queue)
    /\ prefetch_queue' = QueueGet(prefetch_queue).rest
    /\ reset_pc' = "clear_prefetch_queue"
    /\ UNCHANGED <<history, inputs, stop_flag, executor, service_executor, prefetch_count,
                   batch_queue, batch_generator, rest_batch, gen_pos, future,
                   producer_vars, consumer_vars, caller_pc, observed>>

\* pipeline.py 593
reset_iter_test_batch_queue ==
    /\ reset_pc = "clear_batch_queue"
    /\ ClearQueueTest(batch_queue, "get_batch_queue", "clear_prefetch_count")
    /\ UNCHANGED <<history, inputs, stop_flag, executor, service_executor, queues,
                   batch_generator, rest_batch, gen_pos, future, producer_vars,
                   consumer_vars, caller_pc, observed>>

reset_iter_get_batch_queue ==
    /\ reset_pc = "get_batch_queue"
    /\ ClearQueueGet(batch_queue)
    /\ batch_queue' = QueueGet(batch_queue).rest
    /\ reset_pc' = "clear_batch_queue"
    /\ UNCHANGED <<history, inputs, stop_flag, executor, service_executor, prefetch_count,
                   prefetch_queue, batch_generator, rest_batch, gen_pos, future,
                   producer_vars, consumer_vars, caller_pc, observed>>

\* pipeline.py 594
reset_iter_test_prefetch_count ==
    /\ reset_pc = "clear_prefetch_count"
    /\ ClearQueueTest(prefetch_count, "get_prefetch_count", "stop_executor")
    /\ UNCHANGED <<history, inputs, stop_flag, executor, service_executor, queues,
                   batch_generator, rest_batch, gen_pos, future, producer_vars,
                   consumer_vars, caller_pc, observed>>

reset_iter_get_prefetch_count ==
    /\ reset_pc = "get_prefetch_count"
    /\ ClearQueueGet(prefetch_count)
    /\ prefetch_count' = QueueGet(prefetch_count).rest
    /\ reset_pc' = "clear_prefetch_count"
    /\ UNCHANGED <<history, inputs, stop_flag, executor, service_executor, prefetch_queue,
                   batch_queue, batch_generator, rest_batch, gen_pos, future,
                   producer_vars, consumer_vars, caller_pc, observed>>

\* pipeline.py 596: executor.shutdown() refuses new tasks from here on ...
reset_iter_stop_executor ==
    /\ reset_pc = "stop_executor"
    /\ executor' = StopExecutor(executor)
    /\ reset_pc' = "join_executor"
    /\ UNCHANGED <<history, inputs, stop_flag, service_executor, queues, batch_generator,
                   rest_batch, gen_pos, future, producer_vars, consumer_vars,
                   caller_pc, observed>>

\* ... and waits for the submitted tasks to finish.
reset_iter_join_executor ==
    /\ reset_pc = "join_executor"
    /\ \A u \in Units : future[u] # "pending"
    /\ reset_pc' = "stop_service"
    /\ UNCHANGED <<history, inputs, stop_flag, executor, service_executor, queues,
                   batch_generator, rest_batch, gen_pos, future, producer_vars,
                   consumer_vars, caller_pc, observed>>

\* pipeline.py 597: the same for the two service workers ...
reset_iter_stop_service ==
    /\ reset_pc = "stop_service"
    /\ service_executor' = StopExecutor(service_executor)
    /\ reset_pc' = "join_service"
    /\ UNCHANGED <<history, inputs, stop_flag, executor, queues, batch_generator,
                   rest_batch, gen_pos, future, producer_vars, consumer_vars,
                   caller_pc, observed>>

\* ... shutdown() returns when both stages have returned (or died).
reset_iter_join_service ==
    /\ reset_pc = "join_service"
    /\ StageOver(producer_pc)
    /\ StageOver(consumer_pc)
    /\ reset_pc' = "assign"
    /\ UNCHANGED <<history, inputs, stop_flag, executor, service_executor, queues,
                   batch_generator, rest_batch, gen_pos, future, producer_vars,
                   consumer_vars, caller_pc, observed>>

\* pipeline.py 599-610: the fields are set to None and reset_iter returns.
reset_iter_assign ==
    /\ reset_pc = "assign"
    /\ executor' = ResetFields.executor
    /\ service_executor' = ResetFields.service_executor
    /\ prefetch_count' = ResetFields.prefetch_count
    /\ prefetch_queue' = ResetFields.prefetch_queue
    /\ batch_queue' = ResetFields.batch_queue
    /\ batch_generator' = ResetFields.batch_generator
    /\ rest_batch' = ResetFields.rest_batch
    /\ UNCHANGED stop_flag
    /\ after_reset' = Append(after_reset, IterFields')
    /\ reset_pc' = "idle"
    /\ UNCHANGED <<history, inputs, gen_pos, future, producer_vars, consumer_vars,
                   caller_pc, output, released>>

\* ============================================================ action chain
PIPELINE_ID == "#_pipeline"
ActionNames == {"load", "train"}

\* Probabilities are floats in [0, 1], held as multiples of 2^-10.
FloatOne == 2^10
IntOne == 1
Probas == {0, FloatOne \div 2, FloatOne}
Repeats == 0..MaxRepeat

\* pipeline.py 29-31: multiply even if any arg is None
\* (one is the operands' unit: FloatOne for probabilities, IntOne for counts)
mult_option(a, b, one) ==
    IF a # None /\ b # None THEN Some((a[1] * b[1]) \div one)
    ELSE IF a # None THEN a ELSE b

\* The chains and the records they share: st.records and st.action_list.
ChainState == [records |-> records, action_list |-> action_list, dataset |-> dataset]
num_actions(st, c) == Len(st.action_list[c])
LastAction(st, c) == st.action_list[c][Len(st.action_list[c])]
get_last_action_proba(st, c) == st.records[LastAction(st, c)].proba
get_last_action_repeatUnset(st, c) == None
get_last_action_repeat(st, c) == st.records[LastAction(st, c)].repeat

\* Pipeline() (pipeline.py 37-43): a new chain with an empty action list
PipelineNew(st) ==
    [records |-> st.records, action_list |-> Append(st.action_list, <<>>),
     dataset |-> Append(st.dataset, None)]

\* Pipeline(pipeline=src, proba, repeat) (pipeline.py 44-56): the new chain
\* gets a copy of the list, which holds the same record dicts; with one
\* record, the modifier is written into that dict.
PipelineCopy(st, src, proba, repeat) ==
    LET list == st.action_list[src]
        last == list[Len(list)]
        recs == IF Len(list) = 1 /\ proba # None
                THEN IF st.records[last].repeat = None
                     THEN [st.records EXCEPT
                              ![last].proba = mult_option(proba, @, FloatOne)]
                     ELSE st.records
                ELSE IF Len(list) = 1 /\ repeat # None
                THEN IF st.records[last].proba = None
                     THEN [st.records EXCEPT
                              ![last].repeat = mult_option(repeat, @, IntOne)]
                     ELSE st.records
                ELSE st.records
    IN  [records |-> recs, action_list |-> Append(st.action_list, list),
         dataset |-> Append(st.dataset, st.dataset[src])]

\* pipeline.py 190-193: a nested-pipeline record, which refers to the chain
append_pipeline(st, self, pipeline, proba, repeat) ==
    LET rec == [name |-> PIPELINE_ID, pipeline |-> Some(pipeline),
                proba |-> proba, repeat |-> repeat]
    IN  [records |-> Append(st.records, rec),
         action_list |-> [st.action_list EXCEPT
                             ![self] = Append(@, Len(st.records) + 1)],
         dataset |-> st.dataset]

\* pipeline.py 88-106
from_pipeline(st, pipeline, proba, repeat) ==
    LET new_p == Len(st.action_list) + 1 IN
    IF proba = None
    THEN IF repeat = None
         THEN PipelineCopy(st, pipeline, None, None)
         ELSE IF num_actions(st, pipeline) = 1
                    /\ get_last_action_proba(st, pipeline) = None
              THEN PipelineCopy(st, pipeline, None, repeat)
              ELSE append_pipeline(PipelineNew(st), new_p, pipeline, None, repeat)
    ELSE IF num_actions(st, pipeline) = 1
               /\ get_last_action_repeat(st, pipeline) = None
         THEN PipelineCopy(st, pipeline, proba, None)
         ELSE append_pipeline(PipelineNew(st), new_p, pipeline, proba, None)

\* pipeline.py 170-174, 185: __getattr__ appends {'name': name} to the chain's
\* own list and append_action completes the record.
getattr_action(st, self, name) ==
    LET rec == [name |-> name, pipeline |-> None, proba |-> None, repeat |-> None]
    IN  [records |-> Append(st.records, rec),
         action_list |-> [st.action_list EXCEPT
                             ![self] = Append(@, Len(st.records) + 1)],
         dataset |-> st.dataset]

\* pipeline.py 187: self._action_list = self._action_list[:-1]
DropLastKept(list) == list
DropLast(list) == SubSeq(list, 1, Len(list) - 1)

\* pipeline.py 183-188: pipeline.name(...), a completed append
append_action(st, self, name) ==
    LET st1 == getattr_action(st, self, name)
        st2 == from_pipeline(st1, self, None, None)
    IN  [records |-> st2.records,
         action_list |-> [st2.action_list EXCEPT ![self] = DropLast(@)],
         dataset |-> st2.dataset]

\* pipeline.py 138-144: other = float(other) if int(other) != 1 else None
matmul_probaKept(other) == Some(other)
matmul_proba(other) == IF other \div FloatOne # 1 THEN Some(other) ELSE None

\* The datasets, each known by its length: bool(dataset) is len(dataset) != 0.
Datasets == 0..NumDatasets
DatasetBool(d) == d # 0

\* pipeline.py 119: pipe1.dataset or pipe2.dataset
DatasetOr(d1, d2) == IF d1 # None /\ DatasetBool(d1[1]) THEN d1 ELSE d2

\* pipeline.py 112
ConflictingDatasets(st, pipe1, pipe2) ==
    /\ st.dataset[pipe1] # st.dataset[pipe2]
    /\ st.dataset[pipe1] # None
    /\ st.dataset[pipe2] # None

\* pipeline.py 117: new_p1._action_list += new_p2._action_list[:]
ExtendListNot(list1, list2) == list1
ExtendList(list1, list2) == list1 \o list2

\* pipeline.py 115-120: the two copies, of which the second is dropped on
\* return; the first gets both lists and the dataset.
concat(st, pipe1, pipe2) ==
    LET st1 == from_pipeline(st, pipe1, None, None)
        new_p1 == Len(st1.action_list)
        st2 == from_pipeline(st1, pipe2, None, None)
        new_p2 == Len(st2.action_list)
    IN  [records |-> st2.records,
         action_list |->
             [c \in 1..new_p1 |->
                 IF c = new_p1
                 THEN ExtendList(st2.action_list[new_p1], st2.action_list[new_p2])
                 ELSE st2.action_list[c]],
         dataset |->
             [c \in 1..new_p1 |->
                 IF c = new_p1
                 THEN DatasetOr(st2.dataset[pipe1], st2.dataset[pipe2])
                 ELSE st2.dataset[c]]]

\* pipeline.py 155-160: pipeline << dataset
lshift(st, self, other) ==
    LET st1 == from_pipeline(st, self, None, None)
    IN  [st1 EXCEPT !.dataset[Len(st1.action_list)] = Some(other)]

InitChain ==
    /\ records = <<>>
    /\ action_list = << <<>> >>
    /\ dataset = << None >>
    /\ last_op = [op |-> "init", base |-> 0, new |-> 1, arg |-> "", other |-> 0]

Chains == DOMAIN action_list

\* p.name(...)
Pipeline_append(c, name) ==
    /\ Len(action_list) < MaxChains
    /\ LET st == append_action(ChainState, c, name) IN
          /\ records' = st.records
          /\ action_list' = st.action_list
          /\ dataset' = st.dataset
    /\ last_op' = [op |-> "append", base |-> c, new |-> Len(action_list) + 1,
                  arg |-> name, other |-> 0]
    /\ UNCHANGED not_chain

\* p @ other (pipeline.py 138-144); an empty chain raises ValueError
Pipeline_matmul(c, other) ==
    /\ Len(action_list) < MaxChains
    /\ num_actions(ChainState, c) # 0
    /\ LET st == from_pipeline(ChainState, c, matmul_proba(other), None) IN
          /\ records' = st.records
          /\ action_list' = st.action_list
          /\ dataset' = st.dataset
    /\ last_op' = [op |-> "matmul", base |-> c, new |-> Len(action_list) + 1,
                  arg |-> "", other |-> other]
    /\ UNCHANGED not_chain

\* p * other (pipeline.py 146-153), other a non-negative int
Pipeline_mul(c, other) ==
    /\ Len(action_list) < MaxChains
    /\ LET st == from_pipeline(ChainState, c, None, Some(other)) IN
          /\ records' = st.records
          /\ action_list' = st.action_list
          /\ dataset' = st.dataset
    /\ last_op' = [op |-> "mul", base |-> c, new |-> Len(action_list) + 1,
                  arg |-> "", other |-> other]
    /\ UNCHANGED not_chain

\* Pipeline.concat(pipe1, pipe2) (pipeline.py 108-120); ValueError leaves
\* everything as it was
Pipeline_concat(pipe1, pipe2) ==
    /\ Len(action_list) < MaxChains
    /\ IF ConflictingDatasets(ChainState, pipe1, pipe2)
       THEN /\ UNCHANGED <<records, action_list, dataset>>
            /\ last_op' = [op |-> "concat_raised", base |-> pipe1, new |-> 0,
                           arg |-> "", other |-> pipe2]
       ELSE /\ LET st == concat(ChainState, pipe1, pipe2) IN
                  /\ records' = st.records
                  /\ action_list' = st.action_list
                  /\ dataset' = st.dataset
            /\ last_op' = [op |-> "concat", base |-> pipe1,
                           new |-> Len(action_list) + 1, arg |-> "",
                           other |-> pipe2]
    /\ UNCHANGED not_chain

\* p + other (pipeline.py 130-136): other without records gives p itself
Pipeline_add(c, other) ==
    /\ Len(action_list) < MaxChains
    /\ IF num_actions(ChainState, other) > 0
       THEN Pipeline_concat(c, other)
       ELSE /\ UNCHANGED <<records, action_list, dataset>>
            /\ last_op' = [op |-> "add_self", base |-> c, new |-> c, arg |-> "",
                           other |-> other]
            /\ UNCHANGED not_chain

\* p << dataset (pipeline.py 155-160)
Pipeline_lshift(c, other) ==
    /\ Len(action_list) < MaxChains
    /\ LET st == lshift(ChainState, c, other) IN
          /\ records' = st.records
          /\ action_list' = st.action_list
          /\ dataset' = st.dataset
    /\ last_op' = [op |-> "lshift", base |-> c, new |-> Len(action_list) + 1,
                  arg |-> "", other |-> other]
    /\ UNCHANGED not_chain

ChainNext ==
    \/ \E c \in Chains, name \in ActionNames : Pipeline_append(c, name)
    \/ \E c \in Chains, other \in Probas : Pipeline_matmul(c, other)
    \/ \E c \in Chains, other \in Repeats : Pipeline_mul(c, other)
    \/ \E pipe1, pipe2 \in Chains : Pipeline_concat(pipe1, pipe2)
    \/ \E c, other \in Chains : Pipeline_add(c, other)
    \/ \E c \in Chains, other \in Datasets : Pipeline_lshift(c, other)


\* ========================================================= model directory
\* decorators.py 29
MODEL_MODES == <<"global", "static", "dynamic">>
Modes == {MODEL_MODES[i] : i \in DOMAIN MODEL_MODES}

\* The pipeline key None (decorators.py 210, 253) and the owner pipelines.
PipelineNone == 0
Pipelines == 1..NumPipelines
Owners == {PipelineNone} \cup Pipelines

\* The decorated model methods; each has its mode, its full name (decorators.py
\* 18-20), here a sequence of characters, and its own lock (decorators.py 208).
Methods == {1, 2, 3}
\* A method decorated with @model() (mode='global'); it is not a method of a
\* batch class and takes no arguments.
GlobalMethod == 4
AllMethods == Methods \cup {GlobalMethod}
MethodMode(b) ==
    IF b = 1 THEN "static" ELSE IF b = GlobalMethod THEN "global" ELSE "dynamic"
MethodFullname(b) ==
    CASE b = 1 -> <<"m", ".", "a">>
      [] b = 2 -> <<"m", ".", "b", "a">>
      [] b = 3 -> <<"m", ".", "c">>
      [] b = GlobalMethod -> <<"m", ".", "g">>

\* The config of the owner pipelines: None, or its keys.
Configs == {None, Some({<<"a">>}), Some({<<"a">>, <<".", "a">>})}

\* The model_spec stored at declaration of a static model: dict()
EmptySpec == 0

\* No operation yet; otherwise the operation and whether it raised.
NoOp == [op |-> "none", raised |-> FALSE]

Workers == 1..NumWorkers
Tasks == [method : Methods, pipeline : Owners]
AllTasks == [method : AllMethods, pipeline : Owners]

\* decorators.py 44-48: model_ref[-len(name):] == name
equal_names(name, model_ref) ==
    /\ Len(name) <= Len(model_ref)
    /\ SubSeq(model_ref, Len(model_ref) - Len(name) + 1, Len(model_ref)) = name

\* decorators.py 210-212
get_method_spec(b, pipeline) ==
    [mode |-> MethodMode(b), method |-> b, name |-> MethodFullname(b),
     pipeline |-> pipeline]

\* decorators.py 113-117
model_exists(method_spec) ==
    /\ method_spec.pipeline \in DOMAIN models[method_spec.mode]
    /\ method_spec.method \in DOMAIN models[method_spec.mode][method_spec.pipeline]

\* decorators.py 227: the test repeated under the lock
MustBuildAlways(method_spec) == TRUE
MustBuild(method_spec) == ~model_exists(method_spec)

\* decorators.py 229-237: the config keys that match the method's name
ConfigModelNamesOne(b, pipeline) ==
    IF pipeline = PipelineNone \/ config = None THEN {}
    ELSE LET names == {model_key \in config[1] : equal_names(model_key, MethodFullname(b))}
         IN  IF names = {} THEN {} ELSE {CHOOSE model_key \in names : TRUE}
ConfigModelNames(b, pipeline) ==
    IF pipeline = PipelineNone \/ config = None THEN {}
    ELSE {model_key \in config[1] : equal_names(model_key, MethodFullname(b))}

\* The model_spec a method returns: a new object at every invocation.
BuildTotal ==
    LET RECURSIVE Sum(_)
        Sum(S) == IF S = {} THEN 0
                  ELSE LET t == CHOOSE x \in S : TRUE
                       IN  build_count[t] + Sum(S \ {t})
    IN  Sum(AllTasks)
NewSpec == BuildTotal + 1

\* decorators.py 220, 223: a global method's spec has the pipeline None
MySpec(w) ==
    get_method_spec(worker_task[w].method,
                    IF MethodMode(worker_task[w].method) = "global"
                    THEN PipelineNone ELSE worker_task[w].pipeline)

\* decorators.py 253-255: the decorator invokes a global method
BuildsAtDeclarationNever(mode) == FALSE
BuildsAtDeclaration(mode) == mode = "global"

\* decorators.py 36-42, as one step
add_model(ms, method_spec, model_spec) ==
    LET mode == method_spec.mode
        pipeline == method_spec.pipeline
        old == IF pipeline \in DOMAIN ms[mode] THEN ms[mode][pipeline] ELSE <<>>
        rest == [m \in DOMAIN old \ {method_spec.method} |-> old[m]]
        others == [o \in DOMAIN ms[mode] \ {pipeline} |-> ms[mode][o]]
    IN  [ms EXCEPT ![mode] =
            others @@ (pipeline :> (rest @@ (method_spec.method :> model_spec)))]

\* The declarations (decorators.py 253-258): a static method stores dict()
\* under the pipeline key None; a dynamic method stores nothing.
InitModels ==
    /\ config \in Configs
    /\ models = [mode \in Modes |->
                    IF mode = "static"
                    THEN (PipelineNone :> (1 :> EmptySpec))
                    ELSE <<>>]
    /\ model_lock = [b \in AllMethods |-> 0]
    /\ worker_task \in [Workers -> Tasks]
    /\ \A w \in Workers \ {NumWorkers} :
          \/ worker_task[w].method < worker_task[w + 1].method
          \/ /\ worker_task[w].method = worker_task[w + 1].method
             /\ worker_task[w].pipeline <= worker_task[w + 1].pipeline
    /\ worker_pc = [w \in Workers |-> "check"]
    /\ worker_spec = [w \in Workers |-> EmptySpec]
    /\ returned = [w \in Workers |-> None]
    /\ build_count = [t \in AllTasks |-> 0]
    /\ declared = Methods
    /\ reg_op = NoOp

\* No model is resolved.
IdleModels ==
    /\ config = None
    /\ models = [mode \in Modes |->
                    IF mode = "static"
                    THEN (PipelineNone :> (1 :> EmptySpec))
                    ELSE <<>>]
    /\ model_lock = [b \in AllMethods |-> 0]
    /\ worker_task = [w \in Workers |-> [method |-> 1, pipeline |-> PipelineNone]]
    /\ worker_pc = [w \in Workers |-> "done"]
    /\ worker_spec = [w \in Workers |-> EmptySpec]
    /\ returned = [w \in Workers |-> None]
    /\ build_count = [t \in AllTasks |-> 0]
    /\ declared = Methods
    /\ reg_op = NoOp

\* decorators.py 219-225: a global method goes straight to get_model; else
\* if not ModelDirectory.model_exists(method_spec)
model_wrapper_check(w) ==
    /\ worker_pc[w] = "check"
    /\ worker_task[w].method \in declared
    /\ worker_pc' = [worker_pc EXCEPT ![w] =
                        IF MySpec(w).mode = "global" THEN "get"
                        ELSE IF model_exists(MySpec(w)) THEN "get" ELSE "lock"]
    /\ UNCHANGED <<not_model, declared, reg_op, config, models, model_lock, worker_task,
                   worker_spec, returned, build_count>>

\* decorators.py 226: with _pipeline_model_lock
model_wrapper_lock(w) ==
    /\ worker_pc[w] = "lock"
    /\ model_lock[worker_task[w].method] = 0
    /\ model_lock' = [model_lock EXCEPT ![worker_task[w].method] = w]
    /\ worker_pc' = [worker_pc EXCEPT ![w] = "recheck"]
    /\ UNCHANGED <<not_model, declared, reg_op, config, models, worker_task, worker_spec,
                   returned, build_count>>

\* decorators.py 227: if not ModelDirectory.model_exists(method_spec)
model_wrapper_recheck(w) ==
    /\ worker_pc[w] = "recheck"
    /\ worker_pc' = [worker_pc EXCEPT ![w] =
                        IF MustBuild(MySpec(w)) THEN "build" ELSE "unlock"]
    /\ UNCHANGED <<not_model, declared, reg_op, config, models, model_lock, worker_task,
                   worker_spec, returned, build_count>>

\* decorators.py 229-245: the config lookup, which raises on several matching
\* keys (the lock is released on the way out), then the call of the method.
model_wrapper_build(w) ==
    /\ worker_pc[w] = "build"
    /\ IF Cardinality(ConfigModelNames(worker_task[w].method,
                                       worker_task[w].pipeline)) > 1
       THEN /\ model_lock' = [model_lock EXCEPT ![worker_task[w].method] = 0]
            /\ worker_pc' = [worker_pc EXCEPT ![w] = "raised"]
            /\ UNCHANGED <<worker_spec, build_count>>
       ELSE /\ build_count' = [build_count EXCEPT ![worker_task[w]] = @ + 1]
            /\ worker_spec' = [worker_spec EXCEPT ![w] = NewSpec]
            /\ worker_pc' = [worker_pc EXCEPT ![w] = "add_test"]
            /\ UNCHANGED model_lock
    /\ UNCHANGED <<not_model, declared, reg_op, config, models, worker_task, returned>>

\* decorators.py 40: if pipeline not in ModelDirectory.models[mode]
add_model_test(w) ==
    /\ worker_pc[w] = "add_test"
    /\ worker_pc' = [worker_pc EXCEPT ![w] =
                        IF worker_task[w].pipeline \notin DOMAIN models[MySpec(w).mode]
                        THEN "add_create" ELSE "add_update"]
    /\ UNCHANGED <<not_model, declared, reg_op, config, models, model_lock, worker_task,
                   worker_spec, returned, build_count>>

\* decorators.py 41: ModelDirectory.models[mode][pipeline] = dict()
add_model_create(w) ==
    /\ worker_pc[w] = "add_create"
    /\ LET mode == MySpec(w).mode
           pipeline == worker_task[w].pipeline
           others == [o \in DOMAIN models[mode] \ {pipeline} |-> models[mode][o]]
       IN  models' = [models EXCEPT ![mode] = others @@ (pipeline :> <<>>)]
    /\ worker_pc' = [worker_pc EXCEPT ![w] = "add_update"]
    /\ UNCHANGED <<not_model, declared, reg_op, config, model_lock, worker_task, worker_spec,
                   returned, build_count>>

\* decorators.py 42: ModelDirectory.models[mode][pipeline].update(...), then
\* the with block ends
add_model_update(w) ==
    /\ worker_pc[w] = "add_update"
    /\ LET mode == MySpec(w).mode
           pipeline == worker_task[w].pipeline
           method == worker_task[w].method
           rest == [m \in DOMAIN models[mode][pipeline] \ {method} |->
                       models[mode][pipeline][m]]
       IN  models' = [models EXCEPT ![mode][pipeline] =
                         rest @@ (method :> worker_spec[w])]
    /\ worker_pc' = [worker_pc EXCEPT ![w] = "unlock"]
    /\ UNCHANGED <<not_model, declared, reg_op, config, model_lock, worker_task, worker_spec,
                   returned, build_count>>

\* decorators.py 226: the with block releases the lock
model_wrapper_unlock(w) ==
    /\ worker_pc[w] = "unlock"
    /\ model_lock' = [model_lock EXCEPT ![worker_task[w].method] = 0]
    /\ worker_pc' = [worker_pc EXCEPT ![w] = "get"]
    /\ UNCHANGED <<not_model, declared, reg_op, config, models, worker_task, worker_spec,
                   returned, build_count>>

\* decorators.py 248, 139-152: get_model returns the stored model_spec or
\* raises ValueError
model_wrapper_get(w) ==
    /\ worker_pc[w] = "get"
    /\ IF model_exists(MySpec(w))
       THEN /\ returned' = [returned EXCEPT ![w] =
                   Some(models[MySpec(w).mode][MySpec(w).pipeline][worker_task[w].method])]
            /\ worker_pc' = [worker_pc EXCEPT ![w] = "done"]
       ELSE /\ worker_pc' = [worker_pc EXCEPT ![w] = "raised"]
            /\ UNCHANGED returned
    /\ UNCHANGED <<not_model, declared, reg_op, config, models, model_lock, worker_task,
                   worker_spec, build_count>>

ModelNext ==
    \E w \in Workers :
        \/ model_wrapper_check(w)
        \/ model_wrapper_lock(w)
        \/ model_wrapper_recheck(w)
        \/ model_wrapper_build(w)
        \/ add_model_test(w)
        \/ add_model_create(w)
        \/ add_model_update(w)
        \/ model_wrapper_unlock(w)
        \/ model_wrapper_get(w)

\* decorators.py 206-262: @model(mode) applied to method b.  A global method
\* is invoked and what it returns is stored under the pipeline None; a static
\* method gets dict() stored; a dynamic method gets nothing stored.
model_decorator(b) ==
    /\ b \notin declared
    /\ declared' = declared \cup {b}
    /\ LET method_spec == get_method_spec(b, PipelineNone) IN
          IF BuildsAtDeclaration(MethodMode(b))
          THEN /\ build_count' = [build_count EXCEPT ![[method |-> b, pipeline |-> PipelineNone]] = @ + 1]
               /\ models' = add_model(models, method_spec, NewSpec)
          ELSE IF MethodMode(b) = "static"
          THEN /\ models' = add_model(models, method_spec, EmptySpec)
               /\ UNCHANGED build_count
          ELSE UNCHANGED <<models, build_count>>
    /\ reg_op' = [NoOp EXCEPT !.op = "declare"]
    /\ UNCHANGED <<not_model, config, model_lock, worker_task, worker_pc,
                   worker_spec, returned>>

\* Nothing is declared yet; the workers will resolve models once they are.
InitDeclare ==
    /\ config = None
    /\ models = [mode \in Modes |-> <<>>]
    /\ model_lock = [b \in AllMethods |-> 0]
    /\ worker_task \in [Workers -> AllTasks]
    /\ \A w \in Workers \ {NumWorkers} :
          \/ worker_task[w].method < worker_task[w + 1].method
          \/ /\ worker_task[w].method = worker_task[w + 1].method
             /\ worker_task[w].pipeline <= worker_task[w + 1].pipeline
    /\ worker_pc = [w \in Workers |-> "check"]
    /\ worker_spec = [w \in Workers |-> EmptySpec]
    /\ returned = [w \in Workers |-> None]
    /\ build_count = [t \in AllTasks |-> 0]
    /\ declared = {}
    /\ reg_op = NoOp

DeclareNext ==
    \/ \E b \in AllMethods : model_decorator(b)
    \/ ModelNext


\* ------------------------------------ the directory's operations, one by one
\* The names models are imported by
ImportNames == {<<"a">>, <<"c">>, <<"g">>}

\* decorators.py 50-64: the methods stored for the pipeline (for the mode
\* global: for None) whose full name ends with the name
find_model_method_by_name(ms, model_name, pipeline) ==
    {b \in AllMethods :
        \E mode \in Modes :
            LET pipe == IF mode = "global" THEN PipelineNone ELSE pipeline IN
              /\ pipe \in DOMAIN ms[mode]
              /\ b \in DOMAIN ms[mode][pipe]
              /\ equal_names(model_name, MethodFullname(b))}

\* decorators.py 139-152: the pipeline get_model looks under
get_model_pipeline(mode, spec_pipeline, pipeline) ==
    IF mode = "global" THEN PipelineNone
    ELSE IF pipeline # PipelineNone THEN pipeline ELSE spec_pipeline

\* decorators.py 93-111; the result is whether it raised and the directory after
import_model(ms, model_name, from_pipe, to_pipe) ==
    LET found == find_model_method_by_name(ms, model_name, from_pipe) IN
    IF Cardinality(found) # 1 THEN [raised |-> TRUE, models |-> ms]
    ELSE LET b == CHOOSE m \in found : TRUE
             method_spec == get_method_spec(b, PipelineNone)
             pipe == get_model_pipeline(method_spec.mode, PipelineNone, from_pipe)
         IN  IF pipe \in DOMAIN ms[method_spec.mode] /\ b \in DOMAIN ms[method_spec.mode][pipe]
             THEN [raised |-> FALSE,
                   models |-> add_model(ms, [method_spec EXCEPT !.pipeline = to_pipe],
                                        ms[method_spec.mode][pipe][b])]
             ELSE [raised |-> TRUE, models |-> ms]

\* decorators.py 214-250 as one step, for a config of None: whether it raised,
\* whether the method was invoked, the directory after and the value returned
model_wrapper(ms, b, pipeline, new_spec) ==
    LET method_spec == get_method_spec(b, IF MethodMode(b) = "global"
                                          THEN PipelineNone ELSE pipeline)
        exists == /\ method_spec.pipeline \in DOMAIN ms[method_spec.mode]
                  /\ b \in DOMAIN ms[method_spec.mode][method_spec.pipeline]
    IN  IF exists
        THEN [raised |-> FALSE, built |-> FALSE, models |-> ms,
              value |-> ms[method_spec.mode][method_spec.pipeline][b]]
        ELSE IF method_spec.mode = "global"
        THEN [raised |-> TRUE, built |-> FALSE, models |-> ms, value |-> EmptySpec]
        ELSE [raised |-> FALSE, built |-> TRUE,
              models |-> add_model(ms, method_spec, new_spec), value |-> new_spec]

\* decorators.py 125-136: the dicts of the pipeline in the modes static and
\* dynamic, in that order; popping from a dict while iterating over it raises
\* RuntimeError at the next turn of the loop, so the first dict that is not
\* empty loses one model and the call ends there
ModesToDelete == SubSeq(MODEL_MODES, 2, Len(MODEL_MODES))
FirstNonEmpty(ms, pipeline) ==
    LET full == {i \in DOMAIN ModesToDelete :
                    /\ pipeline \in DOMAIN ms[ModesToDelete[i]]
                    /\ ms[ModesToDelete[i]][pipeline] # <<>>}
    IN  IF full = {} THEN 0 ELSE CHOOSE i \in full : \A j \in full : i <= j
del_model(ms, mode, pipeline, b) ==
    [ms EXCEPT ![mode][pipeline] =
        [m \in DOMAIN ms[mode][pipeline] \ {b} |-> ms[mode][pipeline][m]]]

\* A call of a model method of a batch whose pipeline is `pipeline`
Registry_resolve(b, pipeline) ==
    /\ b \in declared
    /\ LET r == model_wrapper(models, b, pipeline, NewSpec) IN
          /\ r.built => BuildTotal < MaxBuilds
          /\ models' = r.models
          /\ build_count' = IF r.built
                            THEN [build_count EXCEPT ![[method |-> b, pipeline |-> pipeline]] = @ + 1]
                            ELSE build_count
          /\ reg_op' = [NoOp EXCEPT !.op = "resolve", !.raised = r.raised]
    /\ UNCHANGED <<not_model, declared, config, model_lock, worker_task, worker_pc,
                   worker_spec, returned>>

\* ModelDirectory.import_model(model_name, from_pipeline, to_pipeline)
Registry_import(model_name, from_pipe, to_pipe) ==
    /\ LET r == import_model(models, model_name, from_pipe, to_pipe) IN
          /\ models' = r.models
          /\ reg_op' = [NoOp EXCEPT !.op = "import", !.raised = r.raised]
    /\ UNCHANGED <<not_model, declared, config, model_lock, worker_task, worker_pc,
                   worker_spec, returned, build_count>>

\* pipeline.py 57-59: Pipeline(pipeline=from_pipe) imports the static
\* models of from_pipe into the new pipeline, which has no model yet
Registry_copy(from_pipe, to_pipe) ==
    /\ from_pipe # to_pipe
    /\ \A mode \in Modes : to_pipe \notin DOMAIN models[mode]
    /\ from_pipe \in DOMAIN models["static"]
    /\ \E b \in DOMAIN models["static"][from_pipe] :
          LET r == import_model(models, MethodFullname(b), from_pipe, to_pipe) IN
             /\ models' = r.models
             /\ reg_op' = [NoOp EXCEPT !.op = "copy", !.raised = r.raised]
    /\ UNCHANGED <<not_model, declared, config, model_lock, worker_task, worker_pc,
                   worker_spec, returned, build_count>>

\* ModelDirectory.delete_all_models(pipeline), also Pipeline.__del__
Registry_delete(pipeline) ==
    /\ LET i == FirstNonEmpty(models, pipeline) IN
          IF i = 0
          THEN /\ UNCHANGED models
               /\ reg_op' = [NoOp EXCEPT !.op = "delete"]
          ELSE \E b \in DOMAIN models[ModesToDelete[i]][pipeline] :
                  /\ models' = del_model(models, ModesToDelete[i], pipeline, b)
                  /\ reg_op' = [NoOp EXCEPT !.op = "delete", !.raised = TRUE]
    /\ UNCHANGED <<not_model, declared, config, model_lock, worker_task, worker_pc,
                   worker_spec, returned, build_count>>

\* Nothing is declared and no worker is inside a call.
InitRegistry ==
    /\ config = None
    /\ models = [mode \in Modes |-> <<>>]
    /\ model_lock = [b \in AllMethods |-> 0]
    /\ worker_task = [w \in Workers |-> [method |-> 1, pipeline |-> PipelineNone]]
    /\ worker_pc = [w \in Workers |-> "done"]
    /\ worker_spec = [w \in Workers |-> EmptySpec]
    /\ returned = [w \in Workers |-> None]
    /\ build_count = [t \in AllTasks |-> 0]
    /\ declared = {}
    /\ reg_op = NoOp

RegistryNext ==
    \/ \E b \in AllMethods : model_decorator(b)
    \/ \E b \in AllMethods, pipeline \in Owners : Registry_resolve(b, pipeline)
    \/ \E model_name \in ImportNames, from_pipe \in Pipelines, to_pipe \in Pipelines :
          Registry_import(model_name, from_pipe, to_pipe)
    \/ \E from_pipe, to_pipe \in Pipelines : Registry_copy(from_pipe, to_pipe)
    \/ \E pipeline \in Pipelines : Registry_delete(pipeline)

\* ======================================================== chain execution
\* The state of one _exec call: the unit (the records whose action methods
\* ran on it, in order), the gate decisions drawn so far, the records the loop
\* of the outermost _exec_all_actions call came to, and whether the recursion
\* limit was hit.
ExecStart == [batch |-> <<>>, drawn |-> <<>>, visited |-> <<>>, raised |-> FALSE]

\* np.random.binomial(1, proba) == 1 (pipeline.py 431): never for 0, always
\* for 1, otherwise the next outcome of the random source.
OracleAt(oracle, i) == IF i \in DOMAIN oracle THEN oracle[i] ELSE FALSE
Binomial(proba, oracle, i) ==
    IF proba = 0 THEN FALSE
    ELSE IF proba = FloatOne THEN TRUE
    ELSE OracleAt(oracle, i)

\* pipeline.py 427-431: no draw for proba None
needs_exec(st, r, x, oracle) ==
    IF st.records[r].proba = None THEN TRUE
    ELSE Binomial(st.records[r].proba[1], oracle, Len(x.drawn) + 1)
AfterGate(st, r, x, oracle) ==
    IF st.records[r].proba = None THEN x
    ELSE [x EXCEPT !.drawn = Append(@, <<r, needs_exec(st, r, x, oracle)>>)]

\* pipeline.py 373, 382: range(action['repeat'] or 1)
RepeatRange(repeat) == IF repeat = None \/ repeat[1] = 0 THEN 1 ELSE repeat[1]

\* pipeline.py 388: action_list = action_list or self._action_list
ListOrOwn(st, self, list) == IF list = <<>> THEN st.action_list[self] ELSE list

RECURSIVE exec_all_actions(_, _, _, _, _, _)
RECURSIVE ExecFrom(_, _, _, _, _, _, _)
RECURSIVE ExecTimes(_, _, _, _, _, _, _)

\* pipeline.py 371-384: _exec_one_action and _exec_nested_pipeline, the loop
\* body run `times` times
ExecTimes(st, self, r, times, x, oracle, depth) ==
    IF times = 0 \/ x.raised THEN x
    ELSE LET rec == st.records[r]
             x1 == IF rec.name = PIPELINE_ID
                   THEN exec_all_actions(st, self, st.action_list[rec.pipeline[1]],
                                         x, oracle, depth + 1)
                   ELSE [x EXCEPT !.batch = Append(@, r)]
         IN  ExecTimes(st, self, r, times - 1, x1, oracle, depth)

\* pipeline.py 389-425: for _action in action_list, from the i-th on
ExecFrom(st, self, list, i, x, oracle, depth) ==
    IF i > Len(list) \/ x.raised THEN x
    ELSE LET r == list[i]
             x0 == IF depth = 1 THEN [x EXCEPT !.visited = Append(@, r)] ELSE x
             x1 == AfterGate(st, r, x0, oracle)
             x2 == IF needs_exec(st, r, x0, oracle)
                   THEN ExecTimes(st, self, r, RepeatRange(st.records[r].repeat),
                                  x1, oracle, depth)
                   ELSE x1
         IN  ExecFrom(st, self, list, i + 1, x2, oracle, depth)

\* pipeline.py 386-425; a call nested too deep raises RecursionError
exec_all_actions(st, self, list, x, oracle, depth) ==
    IF depth > RecursionLimit THEN [x EXCEPT !.raised = TRUE]
    ELSE ExecFrom(st, self, ListOrOwn(st, self, list), 1, x, oracle, depth)

\* pipeline.py 433-439: _exec(batch) calls _exec_all_actions(batch)
exec(st, self, oracle) ==
    exec_all_actions(st, self, <<>>, ExecStart, oracle, 1)

\* The modifiers a record can carry: none, a probability, or a repeat count.
Modifiers ==
    {[proba |-> None, repeat |-> None]}
    \cup {[proba |-> Some(q), repeat |-> None] : q \in Probas}
    \cup {[proba |-> None, repeat |-> Some(n)] : n \in Repeats}
ActionRecord(name, pipeline, mod) ==
    [name |-> name, pipeline |-> pipeline, proba |-> mod.proba, repeat |-> mod.repeat]

\* Chains as the chain operations leave them: chain 1 holds up to two action
\* records; chain 2 holds a nested-pipeline record that embeds chain 1, alone
\* or next to an action record.
InitExecChains ==
    /\ \E m1, m2, m3 \in Modifiers :
          records = << ActionRecord("load", None, m1),
                       ActionRecord("train", None, m2),
                       ActionRecord(PIPELINE_ID, Some(1), m3) >>
    /\ \E list1 \in {<<>>, <<1>>, <<1, 2>>}, list2 \in {<<3>>, <<2, 3>>, <<3, 2>>} :
          action_list = <<list1, list2>>
    /\ dataset = <<None, None>>
    /\ last_op = [op |-> "init", base |-> 0, new |-> 1, arg |-> "", other |-> 0]

IdleExec ==
    /\ exec_pipeline = 0
    /\ exec_batch = <<>>
    /\ exec_drawn = <<>>
    /\ exec_visited = <<>>
    /\ exec_raised = FALSE

\* self._exec(batch) on chain c, with the outcomes the random source gives
Pipeline_exec(c, oracle) ==
    /\ LET x == exec(ChainState, c, oracle) IN
          /\ exec_batch' = x.batch
          /\ exec_drawn' = x.drawn
          /\ exec_visited' = x.visited
          /\ exec_raised' = x.raised
    /\ exec_pipeline' = c
    /\ UNCHANGED not_exec

ExecNext ==
    \E c \in Chains, oracle \in [1..MaxDraws -> BOOLEAN] : Pipeline_exec(c, oracle)

\* ======================================================= rebatch generator
\* The upstream batches hold the items 1, 2, ... in order.
SourceSizes == UNION {[1..n -> 0..MaxBatchLen] : n \in 0..MaxSources}

RECURSIVE SumSizes(_)
SumSizes(sizes) ==
    IF sizes = <<>> THEN 0 ELSE sizes[1] + SumSizes(Tail(sizes))

SourceBatches(sizes) ==
    [i \in DOMAIN sizes |->
        [k \in 1..sizes[i] |-> SumSizes(SubSeq(sizes, 1, i - 1)) + k]]

\* More batches than gen_rebatch yields when it ends: the model stops a
\* generator that yields for ever there.
MaxYields == MaxSources * MaxBatchLen + 3

\* The merge of the record: the first batch_size items of the batches put end
\* to end, and the items left over; none left over is None or an empty batch.
merge(items, batch_size, none_rest) ==
    LET n == Min(Len(items), batch_size)
        rest == SubSeq(items, n + 1, Len(items))
    IN  [batch |-> SubSeq(items, 1, n),
         rest |-> IF rest = <<>> /\ none_rest THEN None ELSE Some(rest)]

\* pipeline.py 618-624: cur_len and batches at the top of the loop, the list
\* of batches kept as its length and its items put end to end
StartBatches(rest) ==
    IF rest = None THEN [n |-> 0, items |-> <<>>]
    ELSE [n |-> 1, items |-> rest[1]]

\* pipeline.py 625: while cur_len < _action['batch_size']
NeedsMoreWhenEmpty(cur_len, batch_size) == cur_len = 0
NeedsMore(cur_len, batch_size) == cur_len < batch_size

\* pipeline.py 625-632: next_batch() until enough items or StopIteration
RECURSIVE CollectBatches(_, _)
CollectBatches(pos, got) ==
    IF ~NeedsMore(Len(got.items), rb_batch_size) \/ pos > Len(rb_source)
    THEN [next |-> pos, n |-> got.n, items |-> got.items]
    ELSE CollectBatches(pos + 1, [n |-> got.n + 1, items |-> got.items \o rb_source[pos]])

\* One next() on gen_rebatch: one turn of `while True` up to the yield, or
\* the break that ends the generator.
gen_rebatch_next ==
    /\ rb_pc \in {"start", "yielded"}
    /\ Len(rb_yielded) < MaxYields
    /\ LET got == CollectBatches(rb_next, StartBatches(rb_rest)) IN
          /\ rb_next' = got.next
          /\ IF got.n = 0
             THEN /\ rb_pc' = "done"
                  /\ rb_rest' = None
                  /\ UNCHANGED rb_yielded
             ELSE LET merged == merge(got.items, rb_batch_size, rb_none_rest) IN
                     /\ rb_rest' = merged.rest
                     /\ rb_yielded' = Append(rb_yielded, merged.batch)
                     /\ rb_pc' = "yielded"
    /\ UNCHANGED <<not_rebatch, rb_source, rb_batch_size, rb_none_rest>>

\* pipeline.py 616: self._rest_batch = None, before the first turn
InitRebatch ==
    /\ rb_source \in {SourceBatches(sizes) : sizes \in SourceSizes}
    /\ rb_batch_size \in 1..MaxBatchSize
    /\ rb_none_rest \in BOOLEAN
    /\ rb_next = 1
    /\ rb_rest = None
    /\ rb_yielded = <<>>
    /\ rb_pc = "start"

\* No rebatch record
IdleRebatch ==
    /\ rb_source = <<>>
    /\ rb_batch_size = 1
    /\ rb_none_rest = TRUE
    /\ rb_next = 1
    /\ rb_rest = None
    /\ rb_yielded = <<>>
    /\ rb_pc = "done"

RebatchNext == gen_rebatch_next

\* ================================================= names of batch methods
\* The batch classes defined in the program, each with its base class and its
\* own attributes: an @action method, a plain method, or a field.
BatchClasses == {"BaseBatch", "ArrayBatch", "ImagesBatch", "FrameBatch"}
BaseOf(cls) ==
    CASE cls = "ArrayBatch" -> "BaseBatch"
      [] cls = "ImagesBatch" -> "ArrayBatch"
      [] cls = "FrameBatch" -> "BaseBatch"
      [] OTHER -> "object"
AttrNames == {"load", "crop", "sort", "run", "size", "undefined"}
OwnAttrs(cls) ==
    CASE cls = "BaseBatch" -> [n \in {"run"} |-> "method"]
      [] cls = "ArrayBatch" -> [n \in {"load"} |-> "action"]
      [] cls = "ImagesBatch" -> [n \in {"crop"} |-> "action"]
      [] cls = "FrameBatch" -> ("sort" :> "action" @@ "size" :> "field")
      [] OTHER -> <<>>

\* getattr(cls, name) along the base classes: "missing" when hasattr is False
RECURSIVE AttrOf(_, _)
AttrOf(cls, name) ==
    IF cls \notin BatchClasses THEN "missing"
    ELSE IF name \in DOMAIN OwnAttrs(cls) THEN OwnAttrs(cls)[name]
    ELSE AttrOf(BaseOf(cls), name)

\* pipeline.py 162-168: callable in the class or in any class derived from it
RECURSIVE is_batch_method(_, _)
is_batch_method(name, cls) ==
    \/ AttrOf(cls, name) \in {"action", "method"}
    \/ \E subcls \in {c \in BatchClasses : BaseOf(c) = cls} : is_batch_method(name, subcls)

\* pipeline.py 346-369: the method of the batch, or the exception raised
get_action_method(cls, name) ==
    CASE AttrOf(cls, name) = "missing" -> "AttributeError"
      [] AttrOf(cls, name) = "field" -> "TypeError"
      [] AttrOf(cls, name) = "method" -> "ValueError"
      [] OTHER -> "none"

\* pipeline.py 170-176, 183-188: pipeline.name(...)
Pipeline_getattr(name) ==
    /\ cap_pc = "build"
    /\ Len(cap_list) < MaxRecords
    /\ IF is_batch_method(name, "BaseBatch")
       THEN /\ cap_list' = Append(cap_list, name)
            /\ cap_error' = "none"
       ELSE /\ cap_error' = "AttributeError in __getattr__"
            /\ UNCHANGED cap_list
    /\ UNCHANGED <<not_cap, cap_class, cap_pc, cap_cursor>>

\* pipeline.py 433-437: _exec(batch) on a batch of the dataset
Pipeline_exec_start ==
    /\ cap_pc = "build"
    /\ cap_pc' = "exec"
    /\ cap_cursor' = 1
    /\ cap_error' = "none"
    /\ UNCHANGED <<not_cap, cap_class, cap_list>>

\* pipeline.py 389-425, 371-378: the next record of the list
Pipeline_exec_record ==
    /\ cap_pc = "exec"
    /\ IF cap_cursor > Len(cap_list)
       THEN /\ cap_pc' = "done"
            /\ UNCHANGED <<cap_cursor, cap_error>>
       ELSE LET raised == get_action_method(cap_class, cap_list[cap_cursor]) IN
               IF raised = "none"
               THEN /\ cap_cursor' = cap_cursor + 1
                    /\ UNCHANGED <<cap_pc, cap_error>>
               ELSE /\ cap_pc' = "raised"
                    /\ cap_error' = raised
                    /\ UNCHANGED cap_cursor
    /\ UNCHANGED <<not_cap, cap_class, cap_list>>

\* An empty chain over a dataset of any batch class
InitCap ==
    /\ cap_class \in BatchClasses
    /\ cap_list = <<>>
    /\ cap_pc = "build"
    /\ cap_cursor = 0
    /\ cap_error = "none"

\* No such chain
IdleCap ==
    /\ cap_class = "BaseBatch"
    /\ cap_list = <<>>
    /\ cap_pc = "done"
    /\ cap_cursor = 0
    /\ cap_error = "none"

CapNext ==
    \/ \E name \in AttrNames : Pipeline_getattr(name)
    \/ Pipeline_exec_start
    \/ Pipeline_exec_record

\* ===================================================== pipeline variables
Callers == 1..NumCallers
Defaults == {"d1", "d2"}
Inits == {"None", "init"}
VariableCalls ==
    [op : {"get_variable", "init_variable"}, default : Defaults, init : Inits, value : {"none"}]
    \cup [op : {"set_variable"}, default : {"d1"}, init : {"None"}, value : {"v"}]

FirstStep(call) ==
    CASE call.op = "get_variable" -> "get_test"
      [] call.op = "init_variable" -> "init_test"
      [] OTHER -> "set_warn"

\* name not in self._variables
NotInVariablesAlways(entry) == TRUE
NotInVariables(entry) == entry = None

\* pipeline.py 237: if name not in self._variables
get_variable_test(u) ==
    /\ caller_at[u] = "get_test"
    /\ caller_at' = [caller_at EXCEPT ![u] =
                        IF NotInVariables(variables) THEN "init_test" ELSE "get_read"]
    /\ UNCHANGED <<not_variables, variables, variables_lock, caller_call, caller_value,
                   caller_got, created, init_calls, warned>>

\* pipeline.py 260: the test outside the lock; 265: return self
init_variable_test(u) ==
    /\ caller_at[u] = "init_test"
    /\ caller_at' = [caller_at EXCEPT ![u] =
                        IF NotInVariables(variables) THEN "lock"
                        ELSE IF caller_call[u].op = "get_variable" THEN "get_read"
                        ELSE "done"]
    /\ UNCHANGED <<not_variables, variables, variables_lock, caller_call, caller_value,
                   caller_got, created, init_calls, warned>>

\* pipeline.py 261: with self._variables_lock
init_variable_lock(u) ==
    /\ caller_at[u] = "lock"
    /\ variables_lock = 0
    /\ variables_lock' = u
    /\ caller_at' = [caller_at EXCEPT ![u] = "recheck"]
    /\ UNCHANGED <<not_variables, variables, caller_call, caller_value, caller_got,
                   created, init_calls, warned>>

\* pipeline.py 262: the test repeated under the lock
init_variable_recheck(u) ==
    /\ caller_at[u] = "recheck"
    /\ caller_at' = [caller_at EXCEPT ![u] =
                        IF NotInVariables(variables) THEN "create" ELSE "unlock"]
    /\ UNCHANGED <<not_variables, variables, variables_lock, caller_call, caller_value,
                   caller_got, created, init_calls, warned>>

\* pipeline.py 263: self._variables[name] = dict(default=..., init=..., ...)
init_variable_create(u) ==
    /\ caller_at[u] = "create"
    /\ variables' = Some([default |-> caller_call[u].default, init |-> caller_call[u].init,
                          has_value |-> FALSE, value |-> "none"])
    /\ created' = created + 1
    /\ caller_at' = [caller_at EXCEPT ![u] = "call_init"]
    /\ UNCHANGED <<not_variables, variables_lock, caller_call, caller_value, caller_got,
                   init_calls, warned>>

\* pipeline.py 264: default if init is None else init()
init_variable_value(u) ==
    /\ caller_at[u] = "call_init"
    /\ IF caller_call[u].init = "None"
       THEN /\ caller_value' = [caller_value EXCEPT ![u] = caller_call[u].default]
            /\ UNCHANGED init_calls
       ELSE /\ caller_value' = [caller_value EXCEPT ![u] = "initialized"]
            /\ init_calls' = init_calls + 1
    /\ caller_at' = [caller_at EXCEPT ![u] = "set_warn"]
    /\ UNCHANGED <<not_variables, variables, variables_lock, caller_call, caller_got,
                   created, warned>>

\* pipeline.py 301-302: the warning when the name is not in the dict
set_variable_warn(u) ==
    /\ caller_at[u] = "set_warn"
    /\ warned' = (warned \/ NotInVariables(variables))
    /\ caller_value' = [caller_value EXCEPT ![u] =
                           IF caller_call[u].op = "set_variable" THEN caller_call[u].value ELSE @]
    /\ caller_at' = [caller_at EXCEPT ![u] = "set_update"]
    /\ UNCHANGED <<not_variables, variables, variables_lock, caller_call, caller_got,
                   created, init_calls>>

\* pipeline.py 303: self._variables[name].update({'value': value}), a KeyError
\* when the name is not in the dict; an exception inside `with` frees the lock
set_variable_update(u) ==
    /\ caller_at[u] = "set_update"
    /\ IF variables = None
       THEN /\ caller_at' = [caller_at EXCEPT ![u] = "raised"]
            /\ variables_lock' = IF variables_lock = u THEN 0 ELSE variables_lock
            /\ UNCHANGED variables
       ELSE /\ variables' = Some([variables[1] EXCEPT !.has_value = TRUE,
                                                     !.value = caller_value[u]])
            /\ caller_at' = [caller_at EXCEPT ![u] =
                                IF caller_call[u].op = "set_variable" THEN "done" ELSE "unlock"]
            /\ UNCHANGED variables_lock
    /\ UNCHANGED <<not_variables, caller_call, caller_value, caller_got, created,
                   init_calls, warned>>

\* pipeline.py 261-265: the end of the with block
init_variable_unlock(u) ==
    /\ caller_at[u] = "unlock"
    /\ variables_lock' = 0
    /\ caller_at' = [caller_at EXCEPT ![u] =
                        IF caller_call[u].op = "get_variable" THEN "get_read" ELSE "done"]
    /\ UNCHANGED <<not_variables, variables, caller_call, caller_value, caller_got,
                   created, init_calls, warned>>

\* pipeline.py 239-240: var = self._variables.get(name); var.get('value', default)
get_variable_read(u) ==
    /\ caller_at[u] = "get_read"
    /\ IF variables = None
       THEN /\ caller_at' = [caller_at EXCEPT ![u] = "raised"]
            /\ UNCHANGED caller_got
       ELSE /\ caller_got' = [caller_got EXCEPT ![u] =
                                 IF variables[1].has_value THEN variables[1].value
                                 ELSE caller_call[u].default]
            /\ caller_at' = [caller_at EXCEPT ![u] = "done"]
    /\ UNCHANGED <<not_variables, variables, variables_lock, caller_call, caller_value,
                   created, init_calls, warned>>

\* pipeline.py 41-42, 62: no variable, a free lock; every caller is about to
\* make one call
InitCalls ==
    /\ variables = None
    /\ variables_lock = 0
    /\ caller_call \in [Callers -> VariableCalls]
    /\ caller_at = [u \in Callers |-> FirstStep(caller_call[u])]
    /\ caller_value = [u \in Callers |-> "none"]
    /\ caller_got = [u \in Callers |-> "none"]
    /\ created = 0
    /\ init_calls = 0
    /\ warned = FALSE

\* No call is made
InitVariables ==
    /\ variables = None
    /\ variables_lock = 0
    /\ caller_call = [u \in Callers |-> [op |-> "init_variable", default |-> "d1",
                                         init |-> "None", value |-> "none"]]
    /\ caller_at = [u \in Callers |-> "done"]
    /\ caller_value = [u \in Callers |-> "none"]
    /\ caller_got = [u \in Callers |-> "none"]
    /\ created = 0
    /\ init_calls = 0
    /\ warned = FALSE

VariablesNext ==
    \E u \in Callers :
        \/ get_variable_test(u)
        \/ init_variable_test(u)
        \/ init_variable_lock(u)
        \/ init_variable_recheck(u)
        \/ init_variable_create(u)
        \/ init_variable_value(u)
        \/ set_variable_warn(u)
        \/ set_variable_update(u)
        \/ init_variable_unlock(u)
        \/ get_variable_read(u)

\* ================================================= actions with use_lock
\* decorators.py 270-303: _action_wrapper around an action method declared
\* with @action(use_lock=name), invoked once by each of several units of one
\* chain running in parallel.  The Lock() objects are named by the invocation
\* that made them; 0 stands for None.
Invocations == 1..NumInvocations
ActOutcomes == {"ok", "lookup_raises", "body_raises", "body_skips"}

\* decorators.py 274-275, 296-297
Locking == use_lock # None /\ batch_pipeline # None

\* name in self._variables (pipeline.py 224, 237, 260, 262)
InVariables(entry) == entry # None

\* where init_variable returns to: get_variable's read, or the wrapper's
\* call of get_variable
AfterInit(u) == IF act_nested[u] THEN "get_read" ELSE "get_test"

\* decorators.py 274-277: the two guards, has_variable and the argument
\* threading.Lock() of init_variable
action_wrapper_start(u) ==
    /\ act_pc[u] = "start"
    /\ IF ~Locking
       THEN /\ act_pc' = [act_pc EXCEPT ![u] = "lookup"]
            /\ UNCHANGED act_default
       ELSE IF InVariables(lock_variable)
       THEN /\ act_pc' = [act_pc EXCEPT ![u] = "get_test"]
            /\ UNCHANGED act_default
       ELSE /\ act_pc' = [act_pc EXCEPT ![u] = "init_test"]
            /\ act_default' = [act_default EXCEPT ![u] = u]
    /\ UNCHANGED <<not_lock, use_lock, batch_pipeline, lock_variable, lock_variables_lock,
                   lock_owner, act_does, act_phase, act_nested, act_got>>

\* pipeline.py 260: if name not in self._variables; 265: return self
action_init_variable_test(u) ==
    /\ act_pc[u] = "init_test"
    /\ act_pc' = [act_pc EXCEPT ![u] =
                     IF InVariables(lock_variable) THEN AfterInit(u) ELSE "init_lock"]
    /\ UNCHANGED <<not_lock, use_lock, batch_pipeline, lock_variable, lock_variables_lock,
                   lock_owner, act_does, act_phase, act_nested, act_default, act_got>>

\* pipeline.py 261: with self._variables_lock
action_init_variable_lock(u) ==
    /\ act_pc[u] = "init_lock"
    /\ lock_variables_lock = 0
    /\ lock_variables_lock' = u
    /\ act_pc' = [act_pc EXCEPT ![u] = "init_recheck"]
    /\ UNCHANGED <<not_lock, use_lock, batch_pipeline, lock_variable, lock_owner,
                   act_does, act_phase, act_nested, act_default, act_got>>

\* pipeline.py 262: the test repeated under the lock
action_init_variable_recheck(u) ==
    /\ act_pc[u] = "init_recheck"
    /\ act_pc' = [act_pc EXCEPT ![u] =
                     IF InVariables(lock_variable) THEN "init_unlock" ELSE "init_create"]
    /\ UNCHANGED <<not_lock, use_lock, batch_pipeline, lock_variable, lock_variables_lock,
                   lock_owner, act_does, act_phase, act_nested, act_default, act_got>>

\* pipeline.py 263: self._variables[name] = dict(default=..., init=None, ...)
action_init_variable_create(u) ==
    /\ act_pc[u] = "init_create"
    /\ lock_variable' = Some([default |-> act_default[u], has_value |-> FALSE, value |-> 0])
    /\ act_pc' = [act_pc EXCEPT ![u] = "init_set"]
    /\ UNCHANGED <<not_lock, use_lock, batch_pipeline, lock_variables_lock, lock_owner,
                   act_does, act_phase, act_nested, act_default, act_got>>

\* pipeline.py 264, 301-303: self.set_variable(name, default)
action_init_variable_set(u) ==
    /\ act_pc[u] = "init_set"
    /\ lock_variable' = Some([lock_variable[1] EXCEPT !.has_value = TRUE,
                                                     !.value = act_default[u]])
    /\ act_pc' = [act_pc EXCEPT ![u] = "init_unlock"]
    /\ UNCHANGED <<not_lock, use_lock, batch_pipeline, lock_variables_lock, lock_owner,
                   act_does, act_phase, act_nested, act_default, act_got>>

\* pipeline.py 261-265: the end of the with block
action_init_variable_unlock(u) ==
    /\ act_pc[u] = "init_unlock"
    /\ lock_variables_lock' = 0
    /\ act_pc' = [act_pc EXCEPT ![u] = AfterInit(u)]
    /\ UNCHANGED <<not_lock, use_lock, batch_pipeline, lock_variable, lock_owner,
                   act_does, act_phase, act_nested, act_default, act_got>>

\* pipeline.py 237-238: get_variable(name): if name not in self._variables:
\* self.init_variable(name, None, None, False)
action_get_variable_test(u) ==
    /\ act_pc[u] = "get_test"
    /\ IF InVariables(lock_variable)
       THEN /\ act_pc' = [act_pc EXCEPT ![u] = "get_read"]
            /\ UNCHANGED <<act_nested, act_default>>
       ELSE /\ act_pc' = [act_pc EXCEPT ![u] = "init_test"]
            /\ act_nested' = [act_nested EXCEPT ![u] = TRUE]
            /\ act_default' = [act_default EXCEPT ![u] = 0]
    /\ UNCHANGED <<not_lock, use_lock, batch_pipeline, lock_variable, lock_variables_lock,
                   lock_owner, act_does, act_phase, act_got>>

\* pipeline.py 239-240: var = self._variables.get(name); return
\* var.get('value', default) with default None
action_get_variable_read(u) ==
    /\ act_pc[u] = "get_read"
    /\ IF ~InVariables(lock_variable)
       THEN /\ act_pc' = [act_pc EXCEPT ![u] = "raised"]
            /\ UNCHANGED act_got
       ELSE /\ act_got' = [act_got EXCEPT ![u] =
                              IF lock_variable[1].has_value THEN lock_variable[1].value
                              ELSE 0]
            /\ act_pc' = [act_pc EXCEPT ![u] = act_phase[u]]
    /\ UNCHANGED <<not_lock, use_lock, batch_pipeline, lock_variable, lock_variables_lock,
                   lock_owner, act_does, act_phase, act_nested, act_default>>

\* decorators.py 278: .acquire() on what get_variable returned; None has no
\* acquire (AttributeError); a held lock makes the caller wait
action_wrapper_acquire(u) ==
    /\ act_pc[u] = "acquire"
    /\ IF act_got[u] = 0
       THEN /\ act_pc' = [act_pc EXCEPT ![u] = "raised"]
            /\ UNCHANGED lock_owner
       ELSE /\ lock_owner[act_got[u]] = 0
            /\ lock_owner' = [lock_owner EXCEPT ![act_got[u]] = u]
            /\ act_pc' = [act_pc EXCEPT ![u] = "lookup"]
    /\ UNCHANGED <<not_lock, use_lock, batch_pipeline, lock_variable, lock_variables_lock,
                   act_does, act_phase, act_nested, act_default, act_got>>

\* decorators.py 280-291: with a model name, the lookup of the model method
\* and its call, either of which may raise
action_wrapper_lookup(u) ==
    /\ act_pc[u] = "lookup"
    /\ act_pc' = [act_pc EXCEPT ![u] =
                     IF act_does[u] = "lookup_raises" THEN "raised" ELSE "body"]
    /\ UNCHANGED <<not_lock, use_lock, batch_pipeline, lock_variable, lock_variables_lock,
                   lock_owner, act_does, act_phase, act_nested, act_default, act_got>>

\* decorators.py 281, 293, 295-297: the action method returns or raises (an
\* exception or SkipBatchException); after a return, the guards of the release
action_wrapper_body(u) ==
    /\ act_pc[u] = "body"
    /\ IF act_does[u] # "ok"
       THEN /\ act_pc' = [act_pc EXCEPT ![u] = "raised"]
            /\ UNCHANGED <<act_phase, act_nested>>
       ELSE /\ act_pc' = [act_pc EXCEPT ![u] = IF Locking THEN "get_test" ELSE "done"]
            /\ act_phase' = [act_phase EXCEPT ![u] = "release"]
            /\ act_nested' = [act_nested EXCEPT ![u] = FALSE]
    /\ UNCHANGED <<not_lock, use_lock, batch_pipeline, lock_variable, lock_variables_lock,
                   lock_owner, act_does, act_default, act_got>>

\* decorators.py 297-299: .release() on what get_variable returned, then
\* return _res; releasing a lock nobody holds raises RuntimeError
action_wrapper_release(u) ==
    /\ act_pc[u] = "release"
    /\ IF act_got[u] = 0 \/ lock_owner[act_got[u]] = 0
       THEN /\ act_pc' = [act_pc EXCEPT ![u] = "raised"]
            /\ UNCHANGED lock_owner
       ELSE /\ lock_owner' = [lock_owner EXCEPT ![act_got[u]] = 0]
            /\ act_pc' = [act_pc EXCEPT ![u] = "done"]
    /\ UNCHANGED <<not_lock, use_lock, batch_pipeline, lock_variable, lock_variables_lock,
                   act_does, act_phase, act_nested, act_default, act_got>>

\* pipeline.py 41-42, 62: a chain with no variable yet; every unit is about
\* to invoke the action
InitLocked ==
    /\ use_lock \in {None, Some("lock")}
    /\ batch_pipeline \in {None, Some(1)}
    /\ lock_variable = None
    /\ lock_variables_lock = 0
    /\ lock_owner = [k \in Invocations |-> 0]
    /\ act_does \in [Invocations -> ActOutcomes]
    /\ act_pc = [u \in Invocations |-> "start"]
    /\ act_phase = [u \in Invocations |-> "acquire"]
    /\ act_nested = [u \in Invocations |-> FALSE]
    /\ act_default = [u \in Invocations |-> 0]
    /\ act_got = [u \in Invocations |-> 0]

\* No action is invoked
IdleLock ==
    /\ use_lock = None
    /\ batch_pipeline = None
    /\ lock_variable = None
    /\ lock_variables_lock = 0
    /\ lock_owner = [k \in Invocations |-> 0]
    /\ act_does = [u \in Invocations |-> "ok"]
    /\ act_pc = [u \in Invocations |-> "done"]
    /\ act_phase = [u \in Invocations |-> "acquire"]
    /\ act_nested = [u \in Invocations |-> FALSE]
    /\ act_default = [u \in Invocations |-> 0]
    /\ act_got = [u \in Invocations |-> 0]

action_wrapper(u) ==
    \/ action_wrapper_start(u)
    \/ action_init_variable_test(u)
    \/ action_init_variable_lock(u)
    \/ action_init_variable_recheck(u)
    \/ action_init_variable_create(u)
    \/ action_init_variable_set(u)
    \/ action_init_variable_unlock(u)
    \/ action_get_variable_test(u)
    \/ action_get_variable_read(u)
    \/ action_wrapper_acquire(u)
    \/ action_wrapper_lookup(u)
    \/ action_wrapper_body(u)
    \/ action_wrapper_release(u)

LockNext == \E u \in Invocations : action_wrapper(u)

\* ============================================== in-batch parallel dispatch
\* decorators.py 329-502: @inbatch_parallel(init, post, target) around a method
\* of the owning object.  One call of the wrapped method is one dispatch.
\* The aliases 't', 'm', 'a', 'f' select the same branches as the full names.
Targets == {"threads", "nogil", "mpc", "async", "for"}
PoolTargets == {"threads", "nogil", "mpc"}
\* the targets that call the method once and submit what it returned
FactoryTargets == {"nogil", "mpc"}

\* what init yields: the k-th bundle, and whether the work on it raises
BundleSeqs == UNION {[1..k -> BOOLEAN] : k \in 0..MaxBundles}

NoCalls == [method |-> 0, fn |-> 0, post |-> 0, aggregate |-> 0]
NewFuture == [state |-> "pending", result |-> None]

\* The result of one bundle: a value, an exception, or (when the method
\* handed back a function that nobody called) that function.
Result(i, kind) == [bundle |-> i, kind |-> kind]
Work(i, raises) == Result(i, IF raises THEN "exception" ELSE "value")

\* What becomes of bundle i.  threads / async run method(self, *margs); nogil
\* and mpc run the object method(self, *args) returned, which raises TypeError
\* when it is not callable; for runs method(self, *margs) and then, when the
\* result is callable, the result.
RunBundle(tg, factory, i, raises) ==
    IF tg \in FactoryTargets
    THEN IF factory THEN Work(i, raises) ELSE Result(i, "exception")
    ELSE IF tg = "for"
    THEN Work(i, raises)
    ELSE IF factory THEN Result(i, "callable") ELSE Work(i, raises)

\* Calls of the method and of the function it returned that one bundle costs.
BundleCalls(tg, factory) ==
    IF tg \in FactoryTargets
    THEN [method |-> 0, fn |-> IF factory THEN 1 ELSE 0]
    ELSE IF tg = "for"
    THEN [method |-> 1, fn |-> IF factory THEN 1 ELSE 0]
    ELSE [method |-> 1, fn |-> 0]

Running == {i \in DOMAIN futures : futures[i].state = "running"}
Pending == {i \in DOMAIN futures : futures[i].state = "pending"}
AllCompleted == \A i \in DOMAIN futures : futures[i].state = "done"

\* decorators.py 325-327
any_action_failed(results) ==
    \E i \in DOMAIN results : results[i].kind = "exception"

\* decorators.py 364-373: one result per future, in the order of `futures`
ResultsSkipFailed(fs) ==
    LET all == [i \in DOMAIN fs |-> fs[i].result[1]]
    IN  SelectSeq(all, LAMBDA r : r.kind # "exception")
ResultsOf(fs) == [i \in DOMAIN fs |-> fs[i].result[1]]

\* decorators.py 375-380: post_fn is None
default_aggregation_reraise(all) ==
    IF any_action_failed(all)
    THEN [pc |-> "raised", ret |-> "raise", printed |-> FALSE]
    ELSE [pc |-> "returned", ret |-> "self", printed |-> FALSE]
default_aggregation(all) ==
    [pc |-> "returned", ret |-> "self", printed |-> any_action_failed(all)]

\* decorators.py 475-480: wrap_with_for's try / except Exception around one
\* bundle; the loop goes on whatever the bundle did
for_after_uncaught(result, n, k) ==
    IF result.kind = "exception" THEN "raised"
    ELSE IF n = k THEN "post" ELSE "loop"
for_after(result, n, k) == IF n = k THEN "post" ELSE "loop"

InitDispatch ==
    /\ target = "none"
    /\ has_post = FALSE
    /\ op_factory = FALSE
    /\ has_timeout = FALSE
    /\ bundles = <<>>
    /\ futures = <<>>
    /\ done_order = <<>>
    /\ all_results = <<>>
    /\ calls = NoCalls
    /\ printed = FALSE
    /\ wrap_pc = "idle"
    /\ dispatch_return = "none"

\* decorators.py 487-501 and the head of the wrap_with_* chosen: the call of
\* the wrapped method.  nogil and mpc call the method here, once.
wrapped_method(tg, post, factory, timeout, bs) ==
    /\ wrap_pc = "idle"
    /\ target' = tg
    /\ has_post' = post
    /\ op_factory' = factory
    /\ has_timeout' = timeout
    /\ bundles' = bs
    /\ calls' = [calls EXCEPT !.method = IF tg \in FactoryTargets THEN 1 ELSE 0]
    /\ wrap_pc' = IF tg = "for"
                  THEN (IF Len(bs) = 0 THEN "post" ELSE "loop")
                  ELSE "submit"
    /\ UNCHANGED <<futures, done_order, all_results, printed, dispatch_return>>
    /\ UNCHANGED not_dispatch

\* decorators.py 412-418, 434-437, 459-461: one future (or task) per bundle
wrap_submit ==
    /\ wrap_pc = "submit"
    /\ Len(futures) < Len(bundles)
    /\ futures' = Append(futures, NewFuture)
    /\ UNCHANGED <<target, has_post, op_factory, has_timeout, bundles, done_order,
                   all_results, calls, printed, wrap_pc, dispatch_return>>
    /\ UNCHANGED not_dispatch

\* decorators.py 420-421, 439-440, 463: the loop over the bundles is over
wrap_wait ==
    /\ wrap_pc = "submit"
    /\ Len(futures) = Len(bundles)
    /\ wrap_pc' = "wait"
    /\ UNCHANGED <<target, has_post, op_factory, has_timeout, bundles, futures,
                   done_order, all_results, calls, printed, dispatch_return>>
    /\ UNCHANGED not_dispatch

\* A pool worker, or the event loop, takes the oldest pending future.  The
\* pool has n_workers workers; the tasks of the event loop start only once
\* run_until_complete runs it.
future_start(i) ==
    /\ target \in PoolTargets \cup {"async"}
    /\ i \in Pending
    /\ \A j \in Pending : i <= j
    /\ IF target = "async" THEN wrap_pc = "wait" ELSE Cardinality(Running) < NWorkers
    /\ futures' = [futures EXCEPT ![i].state = "running"]
    /\ calls' = [calls EXCEPT
                    !.method = @ + BundleCalls(target, op_factory).method,
                    !.fn = @ + BundleCalls(target, op_factory).fn]
    /\ UNCHANGED <<target, has_post, op_factory, has_timeout, bundles, done_order,
                   all_results, printed, wrap_pc, dispatch_return>>
    /\ UNCHANGED not_dispatch

\* The work on bundle i returns or raises; the future keeps either.
future_finish(i) ==
    /\ i \in Running
    /\ futures' = [futures EXCEPT
                      ![i] = [state |-> "done",
                              result |-> Some(RunBundle(target, op_factory, i, bundles[i]))]]
    /\ done_order' = Append(done_order, i)
    /\ UNCHANGED <<target, has_post, op_factory, has_timeout, bundles, all_results,
                   calls, printed, wrap_pc, dispatch_return>>
    /\ UNCHANGED not_dispatch

\* decorators.py 420-421, 439-440: cf.wait(futures, timeout, ALL_COMPLETED)
\* returns when all are done or the timeout is over
cf_wait ==
    /\ wrap_pc = "wait"
    /\ target \in PoolTargets
    /\ AllCompleted \/ has_timeout
    /\ wrap_pc' = "exit"
    /\ UNCHANGED <<target, has_post, op_factory, has_timeout, bundles, futures,
                   done_order, all_results, calls, printed, dispatch_return>>
    /\ UNCHANGED not_dispatch

\* decorators.py 407, 430: leaving `with ...Executor(...)` is shutdown(wait=True)
executor_exit ==
    /\ wrap_pc = "exit"
    /\ AllCompleted
    /\ wrap_pc' = "post"
    /\ UNCHANGED <<target, has_post, op_factory, has_timeout, bundles, futures,
                   done_order, all_results, calls, printed, dispatch_return>>
    /\ UNCHANGED not_dispatch

\* decorators.py 463: loop.run_until_complete(asyncio.gather(*futures, ...))
run_until_complete ==
    /\ wrap_pc = "wait"
    /\ target = "async"
    /\ AllCompleted
    /\ wrap_pc' = "post"
    /\ UNCHANGED <<target, has_post, op_factory, has_timeout, bundles, futures,
                   done_order, all_results, calls, printed, dispatch_return>>
    /\ UNCHANGED not_dispatch

\* decorators.py 473-482: wrap_with_for, one turn of its loop
wrap_with_for ==
    /\ wrap_pc = "loop"
    /\ LET i == Len(futures) + 1
           one_ft == RunBundle("for", op_factory, i, bundles[i])
       IN  /\ futures' = Append(futures, [state |-> "done", result |-> Some(one_ft)])
           /\ done_order' = Append(done_order, i)
           /\ wrap_pc' = for_after(one_ft, i, Len(bundles))
    /\ calls' = [calls EXCEPT
                    !.method = @ + BundleCalls("for", op_factory).method,
                    !.fn = @ + BundleCalls("for", op_factory).fn]
    /\ UNCHANGED <<target, has_post, op_factory, has_timeout, bundles, all_results,
                   printed, dispatch_return>>
    /\ UNCHANGED not_dispatch

\* decorators.py 363-383
call_post_fn ==
    /\ wrap_pc = "post"
    /\ LET all == ResultsOf(futures)
           dflt == default_aggregation(all)
       IN  /\ all_results' = all
           /\ IF has_post
              THEN /\ calls' = [calls EXCEPT !.post = @ + 1, !.aggregate = @ + 1]
                   /\ printed' = FALSE
                   /\ dispatch_return' = "post_result"
                   /\ wrap_pc' = "returned"
              ELSE /\ calls' = [calls EXCEPT !.aggregate = @ + 1]
                   /\ printed' = dflt.printed
                   /\ dispatch_return' = dflt.ret
                   /\ wrap_pc' = dflt.pc
    /\ UNCHANGED <<target, has_post, op_factory, has_timeout, bundles, futures,
                   done_order>>
    /\ UNCHANGED not_dispatch

DispatchNext ==
    \/ \E tg \in Targets, post, factory, timeout \in BOOLEAN, bs \in BundleSeqs :
          wrapped_method(tg, post, factory, timeout, bs)
    \/ wrap_submit
    \/ wrap_wait
    \/ \E i \in 1..MaxBundles : future_start(i)
    \/ \E i \in 1..MaxBundles : future_finish(i)
    \/ cf_wait
    \/ executor_exit
    \/ run_until_complete
    \/ wrap_with_for
    \/ call_post_fn

\* --------------------------------------------------------- specifications
CallerNext ==
    \/ gen_batch_start
    \/ gen_batch_while
    \/ gen_batch_get
    \/ gen_batch_resume
    \/ gen_batch_for
    \/ gen_batch_exec
    \/ gen_batch_resume_seq

ProducerNext ==
    \/ put_batches_while
    \/ put_batches_put_count
    \/ put_batches_next
    \/ put_batches_submit
    \/ put_batches_put_future
    \/ put_batches_put_none

ConsumerNext ==
    \/ run_batches_while
    \/ run_batches_get
    \/ run_batches_put_none
    \/ run_batches_result
    \/ run_batches_finally

PoolNext == \E u \in Units : exec_finish(u)

ResetSteps ==
    \/ reset_iter_test_prefetch_queue
    \/ reset_iter_get_prefetch_queue
    \/ reset_iter_test_batch_queue
    \/ reset_iter_get_batch_queue
    \/ reset_iter_test_prefetch_count
    \/ reset_iter_get_prefetch_count
    \/ reset_iter_stop_executor
    \/ reset_iter_join_executor
    \/ reset_iter_stop_service
    \/ reset_iter_join_service
    \/ reset_iter_assign

\* One iteration of gen_batch, never reset.
IterNext == CallerNext \/ ProducerNext \/ ConsumerNext \/ PoolNext
Init == InitSched /\ InitChain /\ IdleModels /\ IdleExec /\ InitDispatch /\ IdleRebatch /\ IdleCap /\ InitVariables /\ IdleLock
Spec == Init /\ [][IterNext]_vars

\* The threads are scheduled fairly and the caller keeps asking for units.
IterFairness ==
    /\ WF_vars(CallerNext)
    /\ WF_vars(ProducerNext)
    /\ WF_vars(ConsumerNext)
    /\ WF_vars(PoolNext)
FairSpec == Spec /\ IterFairness

\* The same with reset_iter called at most MaxResets times, at any moment the
\* generator is suspended.
ResetNext == IterNext \/ reset_iter_begin \/ ResetSteps
SpecReset == Init /\ [][ResetNext]_vars
FairSpecReset == SpecReset /\ IterFairness /\ WF_vars(ResetSteps)

\* The chain operations, applied in any order to any chain built so far.
InitChains == IdleSched /\ InitChain /\ IdleModels /\ IdleExec /\ InitDispatch /\ IdleRebatch /\ IdleCap /\ InitVariables /\ IdleLock
SpecChain == InitChains /\ [][ChainNext]_vars

\* Workers resolve models, each one method for one pipeline, concurrently.
InitResolve == IdleSched /\ InitChain /\ InitModels /\ IdleExec /\ InitDispatch /\ IdleRebatch /\ IdleCap /\ InitVariables /\ IdleLock
SpecModel == InitResolve /\ [][ModelNext]_vars

\* One unit is executed by a chain, any number of times.
InitExec == IdleSched /\ InitExecChains /\ IdleModels /\ IdleExec /\ InitDispatch /\ IdleRebatch /\ IdleCap /\ InitVariables /\ IdleLock
SpecExec == InitExec /\ [][ExecNext]_vars

\* The @model decorators run, in any order, and workers resolve the models
\* declared so far.
InitDeclared == IdleSched /\ InitChain /\ InitDeclare /\ IdleExec /\ InitDispatch /\ IdleRebatch /\ IdleCap /\ InitVariables /\ IdleLock
SpecDeclare == InitDeclared /\ [][DeclareNext]_vars

\* The directory's operations, one after the other, in any order.
InitDirectory == IdleSched /\ InitChain /\ InitRegistry /\ IdleExec /\ InitDispatch /\ IdleRebatch /\ IdleCap /\ InitVariables /\ IdleLock
SpecRegistry == InitDirectory /\ [][RegistryNext]_vars

\* One rebatch generator is run to its end, for any upstream batches.
InitRebatched == IdleSched /\ InitChain /\ IdleModels /\ IdleExec /\ InitDispatch /\ InitRebatch /\ IdleCap /\ InitVariables /\ IdleLock
SpecRebatch == InitRebatched /\ [][RebatchNext]_vars
FairSpecRebatch == SpecRebatch /\ WF_vars(RebatchNext)

\* A chain is built name by name and then run on a batch of its dataset.
InitNamed == IdleSched /\ InitChain /\ IdleModels /\ IdleExec /\ InitDispatch /\ IdleRebatch /\ InitCap /\ InitVariables /\ IdleLock
SpecNames == InitNamed /\ [][CapNext]_vars

\* Batches of one pipeline call init_variable, get_variable and set_variable
\* for one name, concurrently.
InitVars == IdleSched /\ InitChain /\ IdleModels /\ IdleExec /\ InitDispatch /\ IdleRebatch /\ IdleCap /\ InitCalls /\ IdleLock
SpecVariables == InitVars /\ [][VariablesNext]_vars

\* One dispatch: any target, with or without post, any bundles.
InitLocking == IdleSched /\ InitChain /\ IdleModels /\ IdleExec /\ InitDispatch /\ IdleRebatch /\ IdleCap /\ InitVariables /\ InitLocked
SpecLock == InitLocking /\ [][LockNext]_vars
\* Every unit's thread is scheduled fairly.
LockFairness == \A u \in Invocations : WF_vars(action_wrapper(u))
FairSpecLock == SpecLock /\ LockFairness

InitWrapped == IdleSched /\ InitChain /\ IdleModels /\ IdleExec /\ InitDispatch /\ IdleRebatch /\ IdleCap /\ InitVariables /\ IdleLock
SpecDispatch == InitWrapped /\ [][DispatchNext]_vars
\* The pool's workers and the event loop run what they were given, and the
\* calling thread goes on.
FairSpecDispatch == SpecDispatch /\ WF_vars(DispatchNext)

\* ================================================================ claims
FirstUnits(k) == [i \in 1..k |-> i]
IsOk(u) == outcome[u] = "ok"
AllOk == \A u \in 1..n_units : outcome[u] = "ok"
NoErr == \A u \in 1..n_units : outcome[u] # "err"
OkUnits == SelectSeq(FirstUnits(n_units), IsOk)
InFlight == gen_pos - released

\* C1: when every chain execution succeeds, whatever the order in which the
\* executions finish, the units yielded so far are always the first units of
\* the upstream, in upstream order and each once, and an iteration that has
\* ended has yielded all of 1..n_units.
C1_OutputInUpstreamOrder ==
    AllOk =>
        /\ \E k \in 0..n_units : output = FirstUnits(k)
        /\ caller_pc = "done" => output = FirstUnits(n_units)

\* C1 witness: a prefetching iteration over the full upstream has ended, and a
\* later unit had finished executing before an earlier one.
C1_Witness ==
    /\ AllOk
    /\ prefetch > 0
    /\ n_units = MaxUnits
    /\ out_of_order
    /\ caller_pc = "done"
    /\ output = FirstUnits(n_units)

\* C2: the units pulled from upstream and not yet released by the caller loop
\* are never more than P+1; with the scheduler on, they are never more than
\* the tokens in the admission queue, which holds at most P+1.
C2_InFlightBounded ==
    /\ InFlight <= prefetch + 1
    /\ (prefetch > 0 /\ prefetch_count # None) =>
          /\ InFlight <= Len(prefetch_count[1])
          /\ Len(prefetch_count[1]) <= prefetch + 1

\* C2 witness: P+1 units are in flight with the scheduler on and the producer
\* blocked on the full admission queue.
C2_Witness ==
    /\ prefetch > 0
    /\ InFlight = prefetch + 1
    /\ producer_pc = "put_count"

\* C4: with the scheduler on and fair scheduling, the caller eventually gets
\* the end of the stream and the iteration ends, whatever the units do.
C4_IterationEnds == (prefetch > 0) => <>(caller_pc = "done")

\* C5: with no unit raising an error, an iteration that has ended has yielded
\* exactly the units that did not raise the skip signal, in order.
C5_SkipOmitsOnlyThatUnit == (NoErr /\ caller_pc = "done") => output = OkUnits

\* C6: with the scheduler on, the consumer stage never dies, and the caller
\* never gets a unit whose execution raised nor a unit a second time.
C6_ErrorDropsOnlyThatUnit ==
    (prefetch > 0) =>
        /\ consumer_pc # "dead"
        /\ \A i \in DOMAIN output : outcome[output[i]] = "ok"
        /\ \A i, j \in DOMAIN output : i # j => output[i] # output[j]

\* C7: when reset_iter is called while an iteration with P > 0 is in progress
\* (the generator is suspended at a yield), here one whose units all succeed,
\* it eventually returns, with both stages over and the pools shut down.
C7_ResetReturns ==
    (reset_pc # "idle" /\ prefetch > 0 /\ caller_pc = "yielded" /\ AllOk) ~>
        (/\ reset_pc = "idle"
         /\ StageOver(producer_pc) /\ StageOver(consumer_pc)
         /\ executor = "None" /\ service_executor = "None")

\* C8: every reset_iter call that returns leaves the pool, the service
\* workers, the three queues, the generator and the remainder None and the
\* stop flag set, so the state after a later call equals the state after the
\* first; and a call made before any run never blocks.
C8_ResetIdempotent ==
    /\ \A i \in DOMAIN after_reset :
          /\ after_reset[i] =
                [stop_flag |-> TRUE, executor |-> "None",
                 service_executor |-> "None", prefetch_count |-> None,
                 prefetch_queue |-> None, batch_queue |-> None,
                 batch_generator |-> "None", rest_batch |-> "None"]
          /\ after_reset[i] = after_reset[1]
    /\ (reset_pc = "idle" /\ after_reset # <<>> /\ caller_pc = "start") =>
          IterFields = after_reset[1]
    /\ (reset_pc # "idle" /\ caller_pc = "start") => ENABLED ResetSteps

\* C8 witness: two consecutive calls have returned before any run.
C8_Witness ==
    /\ Len(after_reset) = 2
    /\ caller_pc = "start"
    /\ reset_pc = "idle"

\* What a chain holds: its records in order, each with its fields and, for a
\* nested-pipeline record, what the embedded chain holds.
RECURSIVE ChainContent(_, _)
ChainContent(st, c) ==
    [i \in 1..Len(st.action_list[c]) |->
        LET rec == st.records[st.action_list[c][i]] IN
        [name |-> rec.name, proba |-> rec.proba, repeat |-> rec.repeat,
         nested |-> IF rec.pipeline = None THEN <<>>
                    ELSE ChainContent(st, rec.pipeline[1])]]
ChainStateNext ==
    [records |-> records', action_list |-> action_list', dataset |-> dataset']

\* C9: a completed append to chain c gives a new chain that holds c's records
\* followed by the new record, and every chain that existed, c included,
\* holds after it what it held before.
C9_AppendLeavesBase ==
    [][last_op'.op = "append" =>
          LET c == last_op'.base
              new_p == last_op'.new
          IN  /\ new_p \notin Chains
              /\ ChainContent(ChainStateNext, new_p) =
                    Append(ChainContent(ChainState, c),
                           [name |-> last_op'.arg, proba |-> None,
                            repeat |-> None, nested |-> <<>>])
              /\ \A d \in Chains :
                    ChainContent(ChainStateNext, d) = ChainContent(ChainState, d)
      ]_vars

\* C9 witness: an append has just been made to a chain that holds records and
\* from which another chain had been derived by an append before.
C9_Witness ==
    /\ last_op.op = "append"
    /\ action_list[last_op.base] # <<>>
    /\ \E d \in Chains \ {last_op.new, last_op.base} :
          /\ Len(action_list[d]) = Len(action_list[last_op.base]) + 1
          /\ DropLast(action_list[d]) = action_list[last_op.base]
          /\ action_list[d] # action_list[last_op.new]

Unambiguous(k) == Cardinality(ConfigModelNames(k.method, k.pipeline)) <= 1

\* Some worker resolves another method of the same mode for the same pipeline.
Raced(k) ==
    \E w \in Workers :
        /\ worker_task[w].pipeline = k.pipeline
        /\ MethodMode(worker_task[w].method) = MethodMode(k.method)
        /\ worker_task[w].method # k.method

ResolvedKeys ==
    {k \in Tasks : k.pipeline \in Pipelines /\ Unambiguous(k) /\ ~Raced(k)}

\* C3: when workers resolve a static or dynamic model concurrently for the
\* same (method, owner pipeline) key, whose config lookup is unambiguous, the
\* method is invoked at most once, and exactly once before any of them
\* returns; no caller raises, and every caller returns the one model_spec
\* stored in the directory, which is the one that the single invocation made.
C3_BuilderInvokedOnce ==
    \A k \in ResolvedKeys :
        /\ build_count[k] <= 1
        /\ \A w \in Workers :
              worker_task[w] = k =>
                  /\ worker_pc[w] # "raised"
                  /\ worker_pc[w] = "done" =>
                        /\ build_count[k] = 1
                        /\ model_exists(get_method_spec(k.method, k.pipeline))
                        /\ returned[w] =
                              Some(models[MethodMode(k.method)][k.pipeline][k.method])
        /\ \A w1, w2 \in Workers :
              (/\ worker_task[w1] = k /\ worker_task[w2] = k
               /\ worker_pc[w1] = "done" /\ worker_pc[w2] = "done")
              => returned[w1] = returned[w2]

\* Two workers found no entry for the same key; the first has built the model
\* and returned, the second holds the lock and is about to test again.
C3_Witness ==
    \E k \in ResolvedKeys : \E w1, w2 \in Workers :
        /\ worker_task[w1] = k /\ worker_task[w2] = k
        /\ worker_pc[w1] = "done" /\ build_count[k] = 1
        /\ worker_pc[w2] = "recheck"

\* ------------------------------------------------------------- C11
\* C11: a concatenation that succeeds (concat, or p + other) gives a chain
\* that holds a's records followed by b's, as many as a and b hold together,
\* and every chain that existed, a and b included, holds what it held.
C11_ConcatAppendsLists ==
    [][last_op'.op \in {"concat", "add_self"} =>
          LET a == last_op'.base
              b == last_op'.other
              new_p == last_op'.new
          IN  /\ ChainContent(ChainStateNext, new_p) =
                    ChainContent(ChainState, a) \o ChainContent(ChainState, b)
              /\ Len(action_list'[new_p]) = Len(action_list[a]) + Len(action_list[b])
              /\ \A d \in Chains :
                    ChainContent(ChainStateNext, d) = ChainContent(ChainState, d)
      ]_vars

\* C11 witness: two different chains that hold records have been concatenated.
C11_Witness ==
    /\ last_op.op = "concat"
    /\ last_op.base # last_op.other
    /\ action_list[last_op.base] # <<>>
    /\ action_list[last_op.other] # <<>>
    /\ action_list[last_op.new] = action_list[last_op.base] \o action_list[last_op.other]

\* ------------------------------------------------------------- C12
NonNullDataset(d1, d2) == IF d1 # None THEN d1 ELSE d2

\* C12: concat(a, b) raises exactly when a and b are both bound to a dataset
\* and the two differ, and then nothing changes; otherwise it gives a chain
\* bound to the dataset of a, or of b when a has none.
C12_ConcatConflict ==
    [][last_op'.op \in {"concat", "concat_raised"} =>
          LET a == last_op'.base
              b == last_op'.other
          IN  /\ (last_op'.op = "concat_raised") <=>
                    (dataset[a] # None /\ dataset[b] # None /\ dataset[a] # dataset[b])
              /\ last_op'.op = "concat_raised" =>
                    UNCHANGED <<records, action_list, dataset>>
              /\ last_op'.op = "concat" =>
                    dataset'[last_op'.new] = NonNullDataset(dataset[a], dataset[b])
      ]_vars

\* ------------------------------------------------------------- C13
\* The values None stands for: probability 1 and repeat 1.
ProbaValue(x) == IF x = None THEN FloatOne ELSE x[1]
RepeatValue(x) == IF x = None THEN IntOne ELSE x[1]

\* The chain holds one record, whose competing modifier is unset.
SingleFree(st, c, op) ==
    /\ Len(st.action_list[c]) = 1
    /\ IF op = "matmul" THEN st.records[st.action_list[c][1]].repeat = None
       ELSE st.records[st.action_list[c][1]].proba = None

\* The new chain holds c's single record with the modifier set on it (composed
\* with the one the record had).
ModifierSet(c, new_p, op, x) ==
    /\ Len(action_list'[new_p]) = 1
    /\ LET old == records[action_list[c][1]]
           rec == records'[action_list'[new_p][1]]
       IN  /\ rec.name = old.name
           /\ rec.pipeline = old.pipeline
           /\ IF op = "matmul"
              THEN /\ ProbaValue(rec.proba) = (x * ProbaValue(old.proba)) \div FloatOne
                   /\ rec.repeat = None
              ELSE /\ RepeatValue(rec.repeat) =
                         (IF old.repeat = None THEN x ELSE x * old.repeat[1])
                   /\ rec.proba = None

\* The new chain holds one nested-pipeline record, which embeds c and carries
\* the modifier.
WrappedAsNested(c, new_p, op, x) ==
    /\ Len(action_list'[new_p]) = 1
    /\ LET rec == records'[action_list'[new_p][1]]
       IN  /\ rec.name = PIPELINE_ID
           /\ rec.pipeline = Some(c)
           /\ IF op = "matmul"
              THEN rec.proba = Some(x) /\ rec.repeat = None
              ELSE rec.repeat = Some(x) /\ rec.proba = None

ExpectedRepeat(repeat) == IF repeat = None THEN 1 ELSE repeat[1]
RECURSIVE ExpectedFrom(_, _, _, _, _)
RECURSIVE ExpectedTimes(_, _, _, _, _)
ExpectedTimes(st, r, times, x, oracle) ==
    IF times = 0 THEN x
    ELSE LET rec == st.records[r]
             x1 == IF rec.name = PIPELINE_ID
                   THEN ExpectedFrom(st, st.action_list[rec.pipeline[1]], 1, x, oracle)
                   ELSE [x EXCEPT !.batch = Append(@, r)]
         IN  ExpectedTimes(st, r, times - 1, x1, oracle)
ExpectedFrom(st, list, i, x, oracle) ==
    IF i > Len(list) THEN x
    ELSE LET rec == st.records[list[i]]
             pass == IF rec.proba = None THEN TRUE
                     ELSE Binomial(rec.proba[1], oracle, Len(x.drawn) + 1)
             x1 == IF rec.proba = None THEN x
                   ELSE [x EXCEPT !.drawn = Append(@, <<list[i], pass>>)]
             x2 == IF pass
                   THEN ExpectedTimes(st, list[i], ExpectedRepeat(rec.repeat), x1, oracle)
                   ELSE x1
         IN  ExpectedFrom(st, list, i + 1, x2, oracle)

\* The random source whose first outcomes were the decisions drawn.
DrawnOracle ==
    [i \in 1..MaxDraws |-> IF i <= Len(exec_drawn) THEN exec_drawn[i][2] ELSE FALSE]
Expected == ExpectedFrom(ChainState, action_list[exec_pipeline], 1, ExecStart, DrawnOracle)

NoProba == \A r \in DOMAIN records : records[r].proba = None
NoRepeatZero == \A r \in DOMAIN records : records[r].repeat # Some(0)
EmbeddedNonEmpty ==
    \A r \in DOMAIN records :
        records[r].name = PIPELINE_ID => action_list[records[r].pipeline[1]] # <<>>

\* C14: in a chain whose records have no probability (and whose embedded
\* chains have records), the effect of a record with repeat = n runs n times
\* per unit (None: once), each repetition on the unit the one before
\* returned: the unit _exec returns is the expected one.
C14_RepeatRunsNTimes ==
    (exec_pipeline # 0 /\ NoProba /\ EmbeddedNonEmpty) =>
        (~exec_raised /\ exec_batch = Expected.batch)

\* C15: with no repeat count of 0 in the chain, the gate decisions drawn are
\* one per visited record that has a probability (none for None, a fail for 0,
\* a pass for 1), a failed gate leaves the unit as it is and a passed gate of
\* a nested-pipeline record runs the embedded list: decisions and unit are the
\* expected ones.
C15_OneGatePerRecord ==
    (exec_pipeline # 0 /\ NoRepeatZero) =>
        (/\ ~exec_raised
         /\ exec_drawn = Expected.drawn
         /\ exec_batch = Expected.batch)

\* ------------------------------------------------------ C16 .. C19
\* The work on each bundle is what runs for it: the method itself under
\* threads, async and for, the function the method returned under nogil and
\* mpc (and under for, which calls a callable result).
Applied ==
    IF target \in FactoryTargets THEN op_factory
    ELSE target = "for" \/ ~op_factory
Aggregated == calls.aggregate > 0

\* C16: whatever the back-end and whichever bundles raise, the list handed
\* to post or to the default aggregation is as long as the sequence of
\* bundles init produced, and its i-th element is the result of the i-th
\* bundle: the value its work returned or the exception it raised.
C16_ResultsInBundleOrder ==
    Aggregated =>
        /\ Len(all_results) = Len(bundles)
        /\ \A i \in DOMAIN all_results :
              /\ all_results[i].bundle = i
              /\ all_results[i] = futures[i].result[1]
              /\ Applied => all_results[i] = Work(i, bundles[i])
\* a thread-pool dispatch of three bundles, the second done before the first,
\* some raising and some not
C16_Witness ==
    /\ Aggregated
    /\ target = "threads"
    /\ Applied
    /\ Len(bundles) = MaxBundles
    /\ done_order[1] = 2
    /\ all_results[1].kind = "exception"
    /\ all_results[2].kind = "value"

\* C17: a bundle that raises does not end the dispatch: the exception is kept
\* as that bundle's result, every bundle init produced is run to its end, and
\* the aggregation is then made, once.
C17_NotAborted ==
    /\ (\E i \in DOMAIN futures :
           futures[i].state = "done" /\ futures[i].result[1].kind = "exception")
          => wrap_pc # "raised"
    /\ calls.aggregate <= 1
    /\ Aggregated =>
          /\ Len(futures) = Len(bundles)
          /\ AllCompleted
          /\ \A i \in DOMAIN bundles :
                (Applied /\ bundles[i]) => all_results[i] = Result(i, "exception")
C17_RaisingBundleKeepsSiblings ==
    /\ []C17_NotAborted
    /\ (wrap_pc # "idle") ~> (Aggregated /\ AllCompleted /\ Len(futures) = Len(bundles))
\* the sequential back-end: the first bundle raised, the second ran after it
C17_Witness ==
    /\ Aggregated
    /\ target = "for"
    /\ Len(bundles) >= 2
    /\ all_results[1].kind = "exception"
    /\ all_results[2].kind = "value"
    /\ done_order[2] = 2

\* C18: with no post method, a dispatch in which a bundle raised returns the
\* owning object and raises nothing; the exceptions are printed.
C18_DefaultReturnsSelf ==
    (/\ ~has_post
     /\ \E i \in DOMAIN futures :
           futures[i].state = "done" /\ futures[i].result[1].kind = "exception")
        => /\ wrap_pc # "raised"
           /\ dispatch_return \in {"none", "self"}
           /\ Aggregated => (dispatch_return = "self" /\ printed /\ calls.post = 0)
C18_Witness ==
    /\ Aggregated
    /\ ~has_post
    /\ any_action_failed(all_results)
    /\ \E i \in DOMAIN all_results : all_results[i].kind = "value"
    /\ dispatch_return = "self"
    /\ printed

\* C19: in a dispatch over k bundles (here k >= 2) the thread-pool (threads),
\* process-pool (mpc) and sequential (for) back-ends call the wrapped method
\* itself k times, once per bundle; the specialized thread-pool variant
\* (nogil) calls the method once and the function it returned k times.
C19_OnlyNogilCallsReturned ==
    (wrap_pc = "returned" /\ Len(bundles) >= 2) =>
        /\ target \in {"threads", "mpc", "for"} => calls.method = Len(bundles)
        /\ (target = "nogil" /\ op_factory) =>
              (calls.method = 1 /\ calls.fn = Len(bundles))

\* ------------------------------------------------------------- C20
GlobalKey == [method |-> GlobalMethod, pipeline |-> PipelineNone]
GlobalStored == models["global"][PipelineNone][GlobalMethod]
C20_BuiltAtDeclaration ==
    /\ build_count[GlobalKey] = IF GlobalMethod \in declared THEN 1 ELSE 0
    /\ \A p \in Pipelines : build_count[[method |-> GlobalMethod, pipeline |-> p]] = 0
    /\ GlobalMethod \in declared => model_exists(get_method_spec(GlobalMethod, PipelineNone))
    /\ \A w \in Workers :
          worker_task[w].method = GlobalMethod =>
              /\ worker_pc[w] # "raised"
              /\ worker_pc[w] = "done" => returned[w] = Some(GlobalStored)
C20_StoredOnce ==
    /\ GlobalMethod \in declared => models'["global"] = models["global"]
    /\ (declared' # declared /\ (GlobalMethod \in declared' <=> GlobalMethod \in declared))
          => build_count' = build_count

\* C20: a global model's method is invoked once, when it is declared; every
\* resolve after that, from whatever pipeline, returns the model_spec stored
\* then and invokes nothing; declaring a static or dynamic model invokes
\* nothing (their methods are invoked by resolves only).
C20_GlobalBuiltOnce ==
    /\ []C20_BuiltAtDeclaration
    /\ [][C20_StoredOnce]_vars
\* two workers of different pipelines have resolved the global model, and a
\* dynamic model, declared too, has been built by a resolve
C20_Witness ==
    /\ declared = AllMethods
    /\ \E w1, w2 \in Workers :
          /\ worker_task[w1].method = GlobalMethod
          /\ worker_task[w2].method = GlobalMethod
          /\ worker_task[w1].pipeline # worker_task[w2].pipeline
          /\ worker_pc[w1] = "done" /\ worker_pc[w2] = "done"
          /\ returned[w1] = Some(GlobalStored)
          /\ returned[w2] = returned[w1]
    /\ build_count[GlobalKey] = 1
    /\ \E t \in Tasks : build_count[t] = 1


\* ------------------------------------------------------------------- C21
\* The models kept for one pipeline (or for None) in one mode
ModelsOf(ms, mode, pipeline) ==
    IF pipeline \in DOMAIN ms[mode] THEN DOMAIN ms[mode][pipeline] ELSE {}

\* C21: in every state of the directory reached by declarations, resolves,
\* imports, copies of a pipeline and delete_all_models, in any order, every
\* model of the mode global is stored under the pipeline None and every static
\* or dynamic model is stored under a pipeline, never under None.
C21_KeyedByOwner ==
    \A mode \in Modes : \A pipeline \in Owners :
        ModelsOf(models, mode, pipeline) # {} =>
            (mode = "global" <=> pipeline = PipelineNone)

\* ------------------------------------------------------------------- C23
\* The declared static and dynamic methods whose full name ends with the name
PerPipelineMatches(model_name) ==
    {b \in declared : MethodMode(b) # "global" /\ equal_names(model_name, MethodFullname(b))}

\* What the pipeline holds for the method: the model built for it, or the
\* placeholder while none is built
HeldFor(ms, b, pipeline) ==
    IF b \in ModelsOf(ms, MethodMode(b), pipeline)
    THEN ms[MethodMode(b)][pipeline][b] ELSE EmptySpec

\* C23: import_model(name, from, to) for a name that exactly one static or
\* dynamic method matches does not raise, whether the model is built for
\* `from` or not yet; after it `to` holds what `from` held, what `from` holds
\* is unchanged, and a call of the method for `to` does not invoke it.
C23_ImportBuiltOrPlaceholder ==
    [][\A model_name \in ImportNames : \A from_pipe \in Pipelines : \A to_pipe \in Pipelines :
          (/\ Registry_import(model_name, from_pipe, to_pipe)
           /\ Cardinality(PerPipelineMatches(model_name)) = 1)
          => LET b == CHOOSE m \in PerPipelineMatches(model_name) : TRUE IN
                /\ ~reg_op'.raised
                /\ b \in ModelsOf(models', MethodMode(b), to_pipe)
                /\ HeldFor(models', b, to_pipe) = HeldFor(models, b, from_pipe)
                /\ from_pipe # to_pipe =>
                      \A mode \in Modes :
                          /\ ModelsOf(models', mode, from_pipe) = ModelsOf(models, mode, from_pipe)
                          /\ \A m \in ModelsOf(models, mode, from_pipe) :
                                models'[mode][from_pipe][m] = models[mode][from_pipe][m]
                /\ ~model_wrapper(models', b, to_pipe, NewSpec).built]_vars

\* ------------------------------------------------------------------- C24
\* C24: after delete_all_models(pipeline) no static and no dynamic model is
\* stored under the pipeline, however many there were; the global models and
\* the models of every other pipeline are what they were.
C24_DeleteAllLeavesNone ==
    [][\A pipeline \in Pipelines :
          Registry_delete(pipeline)
          => /\ \A mode \in {"static", "dynamic"} : ModelsOf(models', mode, pipeline) = {}
             /\ models'["global"] = models["global"]
             /\ \A mode \in Modes : \A other \in Owners \ {pipeline} :
                   /\ ModelsOf(models', mode, other) = ModelsOf(models, mode, other)
                   /\ \A m \in ModelsOf(models, mode, other) :
                         models'[mode][other][m] = models[mode][other][m]]_vars


\* ------------------------------------------------------------------- C22
\* The pipeline's config has more than one key the method's full name ends with
AmbiguousConfig(t) ==
    /\ t.pipeline # PipelineNone
    /\ config # None
    /\ \E k1 \in config[1] : \E k2 \in config[1] \ {k1} :
          /\ equal_names(k1, MethodFullname(t.method))
          /\ equal_names(k2, MethodFullname(t.method))

\* C22: when the config of the pipeline has more than one key that the
\* method's full name ends with, every call of the method for that pipeline
\* raises: the method is never invoked, no model is stored for the pipeline,
\* nothing is returned, and the lock is not held by a call that has raised.
C22_AmbiguousConfigRaises ==
    \A w \in Workers :
        AmbiguousConfig(worker_task[w]) =>
            /\ build_count[worker_task[w]] = 0
            /\ ~model_exists(MySpec(w))
            /\ worker_pc[w] \in {"check", "lock", "recheck", "build", "raised"}
            /\ returned[w] = None
            /\ worker_pc[w] = "raised" => model_lock[worker_task[w].method] # w

\* C22 witness: two calls of the same method for the same pipeline with an
\* ambiguous config have both raised, the second after taking the lock the
\* first had released.
C22_Witness ==
    \E w1 \in Workers : \E w2 \in Workers \ {w1} :
        /\ worker_task[w1] = worker_task[w2]
        /\ AmbiguousConfig(worker_task[w1])
        /\ worker_pc[w1] = "raised" /\ worker_pc[w2] = "raised"
        /\ model_lock[worker_task[w1].method] = 0


\* ------------------------------------------------------------------- C25
\* The items of a list of batches put end to end
RECURSIVE Flatten(_)
Flatten(bs) == IF bs = <<>> THEN <<>> ELSE bs[1] \o Flatten(Tail(bs))

\* Every yielded batch but the last has batch_size items, the yielded items
\* are the first items of upstream in their order, and all of them once the
\* generator has ended.
RebatchedRight ==
    /\ \A i \in 1..(Len(rb_yielded) - 1) : Len(rb_yielded[i]) = rb_batch_size
    /\ Flatten(rb_yielded) = SubSeq(Flatten(rb_source), 1, Len(Flatten(rb_yielded)))
    /\ rb_pc = "done" => Flatten(rb_yielded) = Flatten(rb_source)

OkUnitsUpTo(n) == SelectSeq(FirstUnits(n), IsOk)

\* C26: with prefetch = 0 gen_batch creates no queue, no pool and no service
\* worker, and runs in sequence: a unit is taken from upstream only when every
\* unit taken before has been executed and, unless skipped, yielded and asked
\* past by the caller; the units yielded are those that executed, in order.
C26_SequentialWithoutPrefetch ==
    prefetch = 0 =>
        /\ executor = "None" /\ service_executor = "None"
        /\ prefetch_count = None /\ prefetch_queue = None /\ batch_queue = None
        /\ producer_pc = "idle" /\ consumer_pc = "idle"
        /\ \A u \in Units : future[u] = "none"
        /\ gen_pos - released \in {0, 1}
        /\ gen_pos - released = 1 <=> caller_pc \in {"exec", "yielded_seq", "raised"}
        /\ output = OkUnitsUpTo(IF caller_pc = "exec" THEN gen_pos - 1 ELSE gen_pos)

\* C26 witness: with prefetch = 0, three units were taken one by one, one of
\* them skipped, the others yielded, and upstream is exhausted.
C26_Witness ==
    /\ prefetch = 0
    /\ caller_pc = "done"
    /\ gen_pos = 3
    /\ \E u \in Units : outcome[u] = "skip"
    /\ Len(output) = 2


\* ------------------------------------------------------------------- C27
\* The batch class of the chain has the name as an @action method
Exposes(cls, name) == AttrOf(cls, name) = "action"

\* C27: a name is checked when it is appended, against the actions of the
\* batch class the chain runs on: appending a name that class does not have
\* as an action raises at once and leaves the list of records as it was; so
\* every record names an action of that class and executing the chain never
\* comes to a record the batch has no action for.
C27_NameCheckedWhenAppended ==
    /\ [](/\ \A i \in DOMAIN cap_list : Exposes(cap_class, cap_list[i])
          /\ cap_pc # "raised")
    /\ [][\A name \in AttrNames :
             (Pipeline_getattr(name) /\ ~Exposes(cap_class, name))
             => (cap_error' = "AttributeError in __getattr__" /\ cap_list' = cap_list)]_vars


\* ------------------------------------------------------------------- C28
\* C28: when several batches of one pipeline call init_variable or
\* get_variable for a name that is not declared, concurrently, the variable
\* is created once and an init function is called at most once; once it is
\* declared its default and init stay as first given, and only set_variable,
\* or the creating call itself, gives it a value.
C28_CreatedOnce ==
    /\ [](/\ created <= 1
          /\ init_calls <= 1
          /\ created = 0 <=> variables = None
          /\ \A u \in Callers :
                (caller_call[u].op # "set_variable" /\ caller_at[u] = "done")
                => created = 1)
    /\ [][variables # None =>
             /\ variables' # None
             /\ variables'[1].default = variables[1].default
             /\ variables'[1].init = variables[1].init
             /\ variables' # variables =>
                   \E u \in Callers :
                       /\ set_variable_update(u)
                       /\ caller_call[u].op = "set_variable" \/ variables_lock = u]_vars

\* C28 witness: two callers found the name undeclared at the same time; one
\* has created the variable and called its init function, and still holds the
\* lock the other one waits for.
C28_Witness ==
    \E u1 \in Callers : \E u2 \in Callers \ {u1} :
        /\ caller_call[u1].init = "init" /\ caller_call[u2].init = "init"
        /\ caller_at[u1] = "unlock"
        /\ caller_at[u2] = "lock"
        /\ created = 1 /\ init_calls = 1

\* ------------------------------------------------------------------- C29
\* C29: set_variable for a name that is not declared logs the warning and
\* creates the variable with the value; it does not raise, and a get_variable
\* that follows returns the value.
C29_SetCreatesVariable ==
    \A u \in Callers :
        caller_call[u].op = "set_variable" =>
            /\ caller_at[u] # "raised"
            /\ caller_at[u] = "done" =>
                  /\ variables # None
                  /\ variables[1].has_value
                  /\ \A g \in Callers :
                        (/\ caller_call[g].op = "get_variable"
                         /\ caller_at[g] = "get_test"
                         /\ \A o \in Callers \ {g} : caller_call[o].op = "set_variable" /\ caller_at[o] = "done")
                        => variables[1].value = caller_call[u].value


\* ------------------------------------------------------------------- C30
\* C30: _exec on a unit always returns, for every chain the chain operations
\* build, a chain that wraps a chain of no records included: the loop over
\* the chain's own records comes to each of them once, in the order of the
\* list, and no exception is raised.
C30_ExecVisitsEachRecordOnce ==
    exec_pipeline # 0 =>
        /\ ~exec_raised
        /\ exec_visited = action_list[exec_pipeline]


\* ------------------------------------------------------------------- C31
\* The list with every nested-pipeline record that has no probability
\* replaced by the records of the embedded chain, as many times as its repeat
\* count says (None: once)
RECURSIVE Copies(_, _)
Copies(list, n) == IF n = 0 THEN <<>> ELSE list \o Copies(list, n - 1)
RECURSIVE Inlined(_, _)
Inlined(st, list) ==
    IF list = <<>> THEN <<>>
    ELSE LET rec == st.records[list[1]] IN
         (IF rec.name = PIPELINE_ID /\ rec.proba = None
          THEN Copies(Inlined(st, st.action_list[rec.pipeline[1]]), ExpectedRepeat(rec.repeat))
          ELSE <<list[1]>>)
         \o Inlined(st, Tail(list))

\* What the loop of _exec_all_actions gives on the inlined list
InlinedRun ==
    ExecFrom(ChainState, exec_pipeline, Inlined(ChainState, action_list[exec_pipeline]),
             1, ExecStart, DrawnOracle, 1)

\* C31: executing a chain gives the unit, and the sequence of action calls and
\* gate decisions, that executing its records gives with every nested-pipeline
\* record of repeat n (None: 1) replaced by the embedded chain's records, in
\* order, n times.
C31_NestedAsInline ==
    exec_pipeline # 0 =>
        /\ ~exec_raised
        /\ exec_batch = InlinedRun.batch
        /\ exec_drawn = InlinedRun.drawn


\* ------------------------------------------------------------------- C32
\* C32: after any appends, @, *, concatenations, + and <<, no record of any
\* chain, action record or nested-pipeline record, has both a probability and
\* a repeat count; a modifier put on a chain whose single record already has
\* the other one gives a nested-pipeline record that carries the new modifier
\* and embeds the chain.
C32_NeverBothModifiers ==
    /\ [](\A r \in DOMAIN records : records[r].proba = None \/ records[r].repeat = None)
    /\ [][(/\ last_op'.op \in {"matmul", "mul"}
           /\ Len(action_list[last_op'.base]) = 1
           /\ LET rec == records[action_list[last_op'.base][1]] IN
                 IF last_op'.op = "matmul"
                 THEN rec.repeat # None /\ matmul_proba(last_op'.other) # None
                 ELSE rec.proba # None)
          => WrappedAsNested(last_op'.base, last_op'.new, last_op'.op, last_op'.other)
      ]_vars

\* C32 witness: a probability has been put on a chain whose single record has
\* a repeat count; the new chain holds a nested-pipeline record with the
\* probability, and the record keeps its repeat count alone.
C32_Witness ==
    /\ last_op.op = "matmul"
    /\ Len(action_list[last_op.base]) = 1
    /\ records[action_list[last_op.base][1]].repeat # None
    /\ records[action_list[last_op.base][1]].proba = None
    /\ Len(action_list[last_op.new]) = 1
    /\ records[action_list[last_op.new][1]].name = PIPELINE_ID
    /\ records[action_list[last_op.new][1]].proba # None

\* ------------------------------------------------------------------- C33
\* The workers inside `with _pipeline_model_lock` of method b
InsideModelLock(b) == {w \in Workers : model_lock[b] = w}

\* C33: the lock around the first build is one lock per (method, owner
\* pipeline): a call that waits for it to resolve method b for its pipeline
\* is kept out only by a call that resolves b for the same pipeline, so the
\* first resolves of b for two pipelines can build at the same time.
C33_LockPerMethodAndOwner ==
    \A w \in Workers :
        worker_pc[w] = "lock" =>
            \A v \in InsideModelLock(worker_task[w].method) :
                worker_task[v].pipeline = worker_task[w].pipeline

\* ------------------------------------------------------------------- C34
\* The tokens in the admission queue
TokensHeld == IF prefetch_count = None THEN 0 ELSE Len(prefetch_count[1])

IsUnit(item) == item # EndOfStream
QueuedUnits(queue) == IF queue = None THEN 0 ELSE Len(SelectSeq(queue[1], IsUnit))

\* The units between the upstream generator and the caller's release: in the
\* producer's hand, in the result-handle queue, in the consumer's hand, in
\* the delivery queue, and the one the caller was given and has not released.
UnitsInStages ==
    (IF producer_pc \in {"submit", "put_future"} THEN 1 ELSE 0)
    + QueuedUnits(prefetch_queue)
    + (IF consumer_pc \in {"result", "finally"} THEN 1 ELSE 0)
    + QueuedUnits(batch_queue)
    + (IF caller_pc = "yielded" THEN 1 ELSE 0)

\* C34: with the scheduler on, the tokens held are those of the units still
\* in the stages, and at most the one the producer has put for the unit it
\* is about to pull: a unit that was skipped or dropped on an error has given
\* its token back.  Under fair scheduling the producer does not wait for ever
\* for room in the admission queue.
C34_TokenPerUnitInFlight ==
    /\ [](prefetch > 0 => TokensHeld <= UnitsInStages + 1)
    /\ ((prefetch > 0 /\ producer_pc = "put_count") ~> (producer_pc # "put_count"))

\* ------------------------------------------------------------------- C35
\* Two calls resolve different methods of one mode for one owner pipeline,
\* each with an unambiguous config lookup.
SameOwnerBuilders(w1, w2) ==
    /\ worker_task[w1].pipeline \in Pipelines
    /\ worker_task[w1].pipeline = worker_task[w2].pipeline
    /\ worker_task[w1].method # worker_task[w2].method
    /\ MethodMode(worker_task[w1].method) = MethodMode(worker_task[w2].method)
    /\ Unambiguous(worker_task[w1]) /\ Unambiguous(worker_task[w2])

\* C35: when two different methods of the same mode are resolved for the
\* first time concurrently for the same owner pipeline, neither call raises,
\* neither method is invoked a second time, and once both calls have returned
\* the directory holds both entries and each call has returned the entry of
\* its own method.
C35_TwoBuildersOneOwner ==
    \A w1 \in Workers : \A w2 \in Workers \ {w1} :
        SameOwnerBuilders(w1, w2) =>
            /\ worker_pc[w1] # "raised"
            /\ build_count[worker_task[w1]] <= 1
            /\ (worker_pc[w1] = "done" /\ worker_pc[w2] = "done") =>
                  /\ model_exists(MySpec(w1))
                  /\ model_exists(MySpec(w2))
                  /\ returned[w1] =
                        Some(models[MySpec(w1).mode][MySpec(w1).pipeline][worker_task[w1].method])

\* ------------------------------------------------------------------- C36
\* The invocations inside the action body
InBody == {u \in Invocations : act_pc[u] = "body"}

\* The invocations that have looked the lock up before the body
HasLookedUp(u) == act_phase[u] = "acquire" /\ act_pc[u] \in {"acquire", "lookup", "body"}

\* C36: for an action declared with use_lock on the units of a chain, at most
\* one unit is inside the action body at any time, the first concurrent
\* invocations included: every unit that looks the lock variable up gets a
\* lock, the same one as every other unit, and no unit whose model lookup and
\* body do not raise fails.
C36_OneUnitInsideBody ==
    Locking =>
        /\ Cardinality(InBody) <= 1
        /\ \A u \in Invocations : HasLookedUp(u) => act_got[u] # 0
        /\ \A u, v \in Invocations :
              (HasLookedUp(u) /\ HasLookedUp(v)) => act_got[u] = act_got[v]
        /\ \A u \in Invocations : act_does[u] = "ok" => act_pc[u] # "raised"

\* ------------------------------------------------------------------- C37
\* C37: the lock a use_lock action has taken is released whenever the
\* invocation ends, by a return or by an exception of the body or of the
\* model lookup (SkipBatchException included): an invocation that has ended
\* holds no lock, and under fair scheduling a unit that waits for the lock
\* gets it.
C37_LockReleasedOnEveryExit ==
    /\ [](\A u \in Invocations :
             act_pc[u] \in {"done", "raised"} => \A k \in Invocations : lock_owner[k] # u)
    /\ \A u \in Invocations :
          (act_pc[u] = "acquire" /\ act_got[u] # 0) ~> (act_pc[u] # "acquire")

\* ------------------------------------------------------------------- C38
\* C38: the chain p @ other or p * other returns is bound to the dataset p is
\* bound to (and, by the same statements of the constructor, to p's config
\* and variables), whether the modifier was written into the single record
\* or the chain was wrapped as a nested-pipeline record.
C38_ModifierKeepsBinding ==
    [][last_op'.op \in {"matmul", "mul"} =>
          dataset'[last_op'.new] = dataset[last_op'.base]
      ]_vars

====
